---- MODULE Spec2Model ----
(***************************************************************************)
(* A model of gotiny: the wire primitive codec, the engine compiler with   *)
(* its process-wide caches, the type registry and the Encoder / Decoder    *)
(* sessions.                                                               *)
(***************************************************************************)
EXTENDS Integers, Sequences, FiniteSets, TLC

\* F of the value of v: v is worked out once, whatever use F makes of it.
With(v, F(_)) == F(v)

(***************************************************************************)
(* Fixed-width unsigned machine words.  A word of width w is the sequence  *)
(* of its w bits, least significant first, so that Go's wrap-around        *)
(* arithmetic on uint16 / uint32 / uint64 is computed bit for bit.         *)
(***************************************************************************)
Pow2(k) == 2 ^ k

\* uint<w>(n) for a small non-negative n (a byte, a length).
BV(n, w) == [i \in 1..w |-> IF i <= 31 THEN (n \div Pow2(i - 1)) % 2 ELSE 0]

\* the word with exactly the bits of the set S (bit numbers from 0) set.
BVBits(S, w) == [i \in 1..w |-> IF (i - 1) \in S THEN 1 ELSE 0]

\* x << k, truncated to the width of x.
Shl(x, k) == [i \in 1..Len(x) |-> IF i > k THEN x[i - k] ELSE 0]

\* x >> k, logical.
Shr(x, k) == [i \in 1..Len(x) |-> IF i + k <= Len(x) THEN x[i + k] ELSE 0]

NotBV(x) == [i \in 1..Len(x) |-> 1 - x[i]]

\* the number held in bits lo .. lo+cnt-1 of x (cnt <= 8).
BitsToNat(x, lo, cnt) ==
    LET bit(j) == IF j < cnt /\ lo + j + 1 <= Len(x) THEN x[lo + j + 1] ELSE 0
    IN  bit(0) + 2 * bit(1) + 4 * bit(2) + 8 * bit(3)
        + 16 * bit(4) + 32 * bit(5) + 64 * bit(6) + 128 * bit(7)

\* the bytes of a word, low byte first, and back (widths are multiples of 8).
Limbs(x) == [k \in 1..(Len(x) \div 8) |-> BitsToNat(x, 8 * (k - 1), 8)]
FromLimbs(ls) ==
    [i \in 1..(8 * Len(ls)) |-> (ls[((i - 1) \div 8) + 1] \div Pow2((i - 1) % 8)) % 2]

RECURSIVE AddCarry(_, _, _, _, _)
AddCarry(x, y, k, c, acc) ==
    IF k > Len(x) THEN acc
    ELSE LET s == x[k] + y[k] + c
         IN  AddCarry(x, y, k + 1, s \div 256, Append(acc, s % 256))

\* x + y modulo 2^w.
AddBV(x, y) == FromLimbs(AddCarry(Limbs(x), Limbs(y), 1, 0, <<>>))

\* x - y modulo 2^w (two's complement).
SubBV(x, y) == FromLimbs(AddCarry(Limbs(x), Limbs(NotBV(y)), 1, 1, <<>>))

\* position (from 0) of the highest set bit of x, -1 for zero.
HighBit(x) ==
    LET S == {i \in 1..Len(x) : x[i] = 1}
    IN  IF S = {} THEN -1 ELSE (CHOOSE i \in S : \A j \in S : j <= i) - 1

\* a & b on bytes.
RECURSIVE BitAnd8(_, _, _)
BitAnd8(a, b, k) ==
    IF k = 8 THEN 0
    ELSE ((a \div Pow2(k)) % 2) * ((b \div Pow2(k)) % 2) * Pow2(k) + BitAnd8(a, b, k + 1)

\* a | b on bytes.
RECURSIVE BitOr8(_, _, _)
BitOr8(a, b, k) ==
    IF k = 8 THEN 0
    ELSE LET x == (a \div Pow2(k)) % 2
             y == (b \div Pow2(k)) % 2
         IN  (IF x + y > 0 THEN Pow2(k) ELSE 0) + BitOr8(a, b, k + 1)

(***************************************************************************)
(* Signed words are two's complement words of the same width.              *)
(***************************************************************************)
\* x >> k on a signed word: the sign bit is shifted in.
Sar(x, k) == [i \in 1..Len(x) |-> IF i + k <= Len(x) THEN x[i + k] ELSE x[Len(x)]]

XorBV(x, y) == [i \in 1..Len(x) |-> (x[i] + y[i]) % 2]
AndBV(x, y) == [i \in 1..Len(x) |-> x[i] * y[i]]

\* -x
NegBV(x) == SubBV([i \in 1..Len(x) |-> 0], x)

\* uint64((v << 1) ^ (v >> 63))
int64ToUint64(v) == XorBV(Shl(v, 1), Sar(v, 63))

\* a variant of uint64ToInt64 without the mask on v>>1.
uint64ToInt64Unmasked(u) == XorBV(NegBV(AndBV(u, BV(1, 64))), Sar(u, 1))

\* v := int64(u); (-(v & 1)) ^ (v>>1)&0x7FFFFFFFFFFFFFFF  (& binds before ^)
uint64ToInt64(u) ==
    XorBV(NegBV(AndBV(u, BV(1, 64))), AndBV(Sar(u, 1), BVBits(0..62, 64)))

\* uint32((v << 1) ^ (v >> 31))
int32ToUint32(v) == XorBV(Shl(v, 1), Sar(v, 31))

\* v := int32(u); (-(v & 1)) ^ (v>>1)&0x7FFFFFFF
uint32ToInt32(u) ==
    XorBV(NegBV(AndBV(u, BV(1, 32))), AndBV(Sar(u, 1), BVBits(0..30, 32)))

\* uint16((v << 1) ^ (v >> 15))
int16ToUint16(v) == XorBV(Shl(v, 1), Sar(v, 15))

\* v := int16(u); (-(v & 1)) ^ (v>>1)&0x7FFF
uint16ToInt16(u) ==
    XorBV(NegBV(AndBV(u, BV(1, 16))), AndBV(Sar(u, 1), BVBits(0..14, 16)))

(***************************************************************************)
(* Decoder primitives (the read side of the wire codec).  The Decoder is   *)
(* the record [buf, index, boolPos, boolBit]; index counts from 0 and      *)
(* buf[index] of the code is buf[index + 1] of the sequence.  A read past  *)
(* the end of buf is Go's index-out-of-range panic.                        *)
(***************************************************************************)
InBuf(d, k) == d.index + k < Len(d.buf)
At(d, k) == d.buf[d.index + k + 1]

\* a variant of decBool that reads a control byte from its highest bit down.
decBoolHighFirst(d) ==
    IF d.boolBit = 0
    THEN IF ~InBuf(d, 0)
         THEN [d |-> [d EXCEPT !.boolBit = 128], b |-> FALSE, panic |-> TRUE]
         ELSE LET pos == At(d, 0)
              IN  [d |-> [d EXCEPT !.boolBit = 64, !.boolPos = pos, !.index = @ + 1],
                   b |-> BitAnd8(pos, 128, 0) # 0, panic |-> FALSE]
    ELSE [d |-> [d EXCEPT !.boolBit = @ \div 2],
          b |-> BitAnd8(d.boolPos, d.boolBit, 0) # 0, panic |-> FALSE]

\* Decoder.decBool: [d |-> the decoder afterwards, b |-> the boolean, panic].
Decoder_decBool(d) ==
    IF d.boolBit = 0
    THEN IF ~InBuf(d, 0)
         THEN [d |-> [d EXCEPT !.boolBit = 1], b |-> FALSE, panic |-> TRUE]
         ELSE LET pos == At(d, 0)
              IN  [d |-> [d EXCEPT !.boolBit = 2, !.boolPos = pos, !.index = @ + 1],
                   b |-> BitAnd8(pos, 1, 0) # 0, panic |-> FALSE]
    ELSE [d |-> [d EXCEPT !.boolBit = (@ * 2) % 256],
          b |-> BitAnd8(d.boolPos, d.boolBit, 0) # 0, panic |-> FALSE]

\* the flag bits 1<<7 + 1<<14 + ... + 1<<(7k) that the k continued bytes carried.
FlagSum(k, w) == BVBits({7 * j : j \in 1..k}, w)

\* The unrolled body shared by decUint16 / decUint32 / decUint64: byte k of the
\* group is added at bit 7k; a byte below 0x80, or the last byte the width
\* allows, ends the value.
RECURSIVE decGroups(_, _, _, _, _)
decGroups(d, w, maxN, k, x) ==
    IF ~InBuf(d, k) THEN [d |-> d, v |-> x, n |-> 0, panic |-> TRUE]
    ELSE LET b  == At(d, k)
             x2 == AddBV(x, Shl(BV(b, w), 7 * k))
         IN  IF b < 128 \/ k = maxN - 1
             THEN [d |-> [d EXCEPT !.index = @ + k + 1],
                   v |-> SubBV(x2, FlagSum(k, w)), n |-> k + 1, panic |-> FALSE]
             ELSE decGroups(d, w, maxN, k + 1, x2)

\* a variant of decUint16 that goes on to a fourth byte.
decUint16FourBytes(d) == decGroups(d, 16, 4, 0, BV(0, 16))

\* a variant of decUint64 that takes the eighth byte for the last.
decUint64EightBytes(d) == decGroups(d, 64, 8, 0, BV(0, 64))

Decoder_decUint64(d) == decGroups(d, 64, 9, 0, BV(0, 64))
Decoder_decUint32(d) == decGroups(d, 32, 5, 0, BV(0, 32))
Decoder_decUint16(d) == decGroups(d, 16, 3, 0, BV(0, 16))

\* int(uint32) of a decoded length.  Lengths of 2^20 and more all stand for "far
\* longer than any buffer of the model" and are held as 2^20.
ToLen(x) ==
    IF HighBit(x) >= 20 THEN Pow2(20)
    ELSE BitsToNat(x, 0, 8) + 256 * BitsToNat(x, 8, 8) + 65536 * BitsToNat(x, 16, 4)

Decoder_decLength(d) ==
    With(Decoder_decUint32(d), LAMBDA r : [d |-> r.d, l |-> ToLen(r.v), panic |-> r.panic])

Decoder_decIsNotNil(d) == Decoder_decBool(d)

(***************************************************************************)
(* Encoder primitives (the write side of the wire codec).  The Encoder is  *)
(* the record [buf, off, boolPos, boolBit]; boolPos counts from 0.         *)
(***************************************************************************)
appendBytes(e, bs) == [e EXCEPT !.buf = @ \o bs]

\* Encoder.encBool: the control byte of a group of 8 booleans is appended when
\* the first boolean of the group is written; later ones set bits in it.
Encoder_encBool(e, v) ==
    LET e1 == IF e.boolBit = 0
              THEN [appendBytes(e, <<0>>) EXCEPT !.boolPos = Len(e.buf), !.boolBit = 1]
              ELSE e
        e2 == IF v /\ e1.boolPos < Len(e1.buf)
              THEN [e1 EXCEPT !.buf[e1.boolPos + 1] = BitOr8(@, e1.boolBit, 0)]
              ELSE e1
    IN  [e2 EXCEPT !.boolBit = (@ * 2) % 256]

Encoder_encIsNotNil(e, v) == Encoder_encBool(e, v)

\* the number of base-128 groups of x: the fewest that hold its set bits, at
\* most maxN.
NGroups(x, maxN) ==
    LET h == HighBit(x)
        n == IF h < 7 THEN 1 ELSE (h \div 7) + 1
    IN  IF n > maxN THEN maxN ELSE n

\* base-128 groups, low group first, the high bit of a byte saying that more
\* follow; the last group the width allows is written as a whole byte.
encGroups(x, maxN) ==
    LET n == NGroups(x, maxN)
    IN  [j \in 1..n |->
            IF j < n THEN BitsToNat(x, 7 * (j - 1), 7) + 128
            ELSE BitsToNat(x, 7 * (j - 1), IF n = maxN THEN 8 ELSE 7)]

Encoder_encUint64(e, x) == appendBytes(e, encGroups(x, 9))
Encoder_encUint32(e, x) == appendBytes(e, encGroups(x, 5))
Encoder_encUint16(e, x) == appendBytes(e, encGroups(x, 3))
Encoder_encLength(e, l) == Encoder_encUint32(e, BV(l, 32))
Encoder_encString(e, s) == appendBytes(Encoder_encLength(e, Len(s)), s)

(***************************************************************************)
(* The types of the program under analysis (reflect.Type values).  A type  *)
(* is named by its Go type string.  NBools is the length of the boolean    *)
(* arrays, MaxChain the longest chain of list nodes.                       *)
(***************************************************************************)
NBools == 9
MaxChain == 3

PrimTypes == {"bool", "uint8", "uint16", "uint32", "uint64", "string", "[]uint8",
              "time.Time", "struct {}", "<nil>"}

Types == PrimTypes \cup
         {"main.Color", "*uint8", "**uint8", "[]*uint8", "map[uint8]bool",
          "[N]bool", "[N]*uint8", "main.Node", "*main.Node", "interface {}",
          "main.In", "main.S", "func()", "main.Bad", "map[uint8]func()",
          "chan uint8", "unsafe.Pointer", "[]chan uint8", "main.All",
          "main.Flat", "main.Mid", "main.Deep"}

\* reflect.Type.Kind
Kind(t) ==
    CASE t \in {"bool", "uint8", "uint16", "uint32", "uint64", "string"} -> t
      [] t = "main.Color" -> "uint8"
      [] t \in {"*uint8", "**uint8", "*main.Node"} -> "ptr"
      [] t \in {"[]uint8", "[]*uint8", "[]chan uint8"} -> "slice"
      [] t \in {"map[uint8]bool", "map[uint8]func()"} -> "map"
      [] t \in {"[N]bool", "[N]*uint8"} -> "array"
      [] t \in {"time.Time", "struct {}", "main.Node", "main.In", "main.S", "main.Bad",
                 "main.All", "main.Flat", "main.Mid", "main.Deep"} -> "struct"
      [] t = "interface {}" -> "interface"
      [] t = "func()" -> "func"
      [] t = "chan uint8" -> "chan"
      [] t = "unsafe.Pointer" -> "unsafe.Pointer"
      [] OTHER -> "invalid"

\* reflect.Type.Elem
Elem(t) ==
    CASE t = "*uint8" -> "uint8"
      [] t = "**uint8" -> "*uint8"
      [] t = "*main.Node" -> "main.Node"
      [] t = "[]uint8" -> "uint8"
      [] t = "[]*uint8" -> "*uint8"
      [] t = "[]chan uint8" -> "chan uint8"
      [] t = "map[uint8]bool" -> "bool"
      [] t = "map[uint8]func()" -> "func()"
      [] t = "[N]bool" -> "bool"
      [] t = "[N]*uint8" -> "*uint8"

\* reflect.Type.Key
Key(t) == "uint8"

\* reflect.Type.Len
ArrayLen(t) == NBools

\* the declared fields of a struct type: type and whether the field carries
\* the tag gotiny:"-".
\*   main.Node  struct { Val uint8; Next *Node }
\*   main.In    struct { C bool; D uint8 }
\*   main.S     struct { A bool; Skip uint8 `gotiny:"-"`; In In; Z uint8 }
\*   main.Bad   struct { A bool; F func(); B uint8 }
\*   main.All   struct { A bool }, with the methods of all three escape hatches
\*   main.Flat  struct { A bool; C bool; D uint8; Z uint8 }
\*   main.Mid   struct { In In; Skip bool `gotiny:"-"`; Z uint8 }
\*   main.Deep  struct { A bool; M Mid }
StructFields(t) ==
    CASE t = "main.Node" -> << [type |-> "uint8", skip |-> FALSE],
                               [type |-> "*main.Node", skip |-> FALSE] >>
      [] t = "main.In"   -> << [type |-> "bool", skip |-> FALSE],
                               [type |-> "uint8", skip |-> FALSE] >>
      [] t = "main.S"    -> << [type |-> "bool", skip |-> FALSE],
                               [type |-> "uint8", skip |-> TRUE],
                               [type |-> "main.In", skip |-> FALSE],
                               [type |-> "uint8", skip |-> FALSE] >>
      [] t = "main.Bad"  -> << [type |-> "bool", skip |-> FALSE],
                               [type |-> "func()", skip |-> FALSE],
                               [type |-> "uint8", skip |-> FALSE] >>
      [] t = "main.All"  -> << [type |-> "bool", skip |-> FALSE] >>
      [] t = "main.Flat" -> << [type |-> "bool", skip |-> FALSE],
                               [type |-> "bool", skip |-> FALSE],
                               [type |-> "uint8", skip |-> FALSE],
                               [type |-> "uint8", skip |-> FALSE] >>
      [] t = "main.Mid"  -> << [type |-> "main.In", skip |-> FALSE],
                               [type |-> "bool", skip |-> TRUE],
                               [type |-> "uint8", skip |-> FALSE] >>
      [] t = "main.Deep" -> << [type |-> "bool", skip |-> FALSE],
                               [type |-> "main.Mid", skip |-> FALSE] >>
      [] OTHER -> << >>

\* reflect.Type.Size in memory slots: a struct occupies the slots of its
\* fields one after the other, every other type one slot.
RECURSIVE SizeOf(_)
SizeOf(t) ==
    IF Kind(t) = "struct" /\ t # "time.Time"
    THEN LET fs == StructFields(t)
             RECURSIVE sum(_)
             sum(i) == IF i > Len(fs) THEN 0 ELSE SizeOf(fs[i].type) + sum(i + 1)
         IN  sum(1)
    ELSE 1

\* reflect.StructField.Offset of field i of struct type t, in slots.
RECURSIVE FieldOffset(_, _)
FieldOffset(t, i) ==
    IF i = 1 THEN 0
    ELSE FieldOffset(t, i - 1) + SizeOf(StructFields(t)[i - 1].type)

\* the escape-hatch interfaces that *t implements: "Serializer" (GotinyEncode
\* / GotinyDecode), "bin" (BinaryMarshaler + BinaryUnmarshaler), "gob"
\* (GobEncoder + GobDecoder).  time.Time has the last two.
Implements(t) ==
    CASE t = "time.Time" -> {"bin", "gob"}
      [] t = "main.All"  -> {"Serializer", "bin", "gob"}
      [] OTHER -> {}

\* a variant of the detection that tries the hatches in the opposite order.
implementOtherSerializerGobFirst(t) ==
    IF "gob" \in Implements(t) THEN "gob"
    ELSE IF "bin" \in Implements(t) THEN "bin"
    ELSE IF "Serializer" \in Implements(t) THEN "Serializer"
    ELSE "none"

\* implementOtherSerializer: the first escape hatch of t in the fixed order,
\* "none" when both returned engines are nil.
implementOtherSerializer(t) ==
    IF "Serializer" \in Implements(t) THEN "Serializer"
    ELSE IF "bin" \in Implements(t) THEN "bin"
    ELSE IF "gob" \in Implements(t) THEN "gob"
    ELSE "none"

\* a variant of ignoreField that honours no tag.
ignoreNothing(field) == FALSE

\* ignoreField: the field carries the tag gotiny:"-".
ignoreField(field) == field.skip

\* a variant of getFieldType that gives the members of a nested struct the
\* offsets from the struct they are declared in's own place in its parent,
\* the parent's offset left out.
RECURSIVE getFieldTypeRelative(_, _)
getFieldTypeRelative(rt, baseOff) ==
    LET fs == StructFields(rt)
        RECURSIVE loop(_, _)
        loop(i, acc) ==
            IF i > Len(fs) THEN acc
            ELSE LET field == fs[i]
                     ft    == field.type
                 IN  IF ignoreField(field) THEN loop(i + 1, acc)
                     ELSE IF Kind(ft) = "struct" /\ implementOtherSerializer(ft) = "none"
                     THEN LET sub == getFieldTypeRelative(ft, FieldOffset(rt, i))
                          IN  loop(i + 1, [fields |-> acc.fields \o sub.fields,
                                           offs   |-> acc.offs \o sub.offs])
                     ELSE loop(i + 1, [fields |-> Append(acc.fields, ft),
                                       offs   |-> Append(acc.offs,
                                                         FieldOffset(rt, i) + baseOff)])
    IN  loop(1, [fields |-> << >>, offs |-> << >>])

\* getFieldType: the flattened members of struct type rt as two parallel
\* lists, their types and their offsets from the outermost struct.
RECURSIVE getFieldType(_, _)
getFieldType(rt, baseOff) ==
    LET fs == StructFields(rt)
        RECURSIVE loop(_, _)
        loop(i, acc) ==
            IF i > Len(fs) THEN acc
            ELSE LET field == fs[i]
                     ft    == field.type
                     off   == FieldOffset(rt, i) + baseOff
                 IN  IF ignoreField(field) THEN loop(i + 1, acc)
                     ELSE IF Kind(ft) = "struct" /\ implementOtherSerializer(ft) = "none"
                     THEN LET sub == getFieldType(ft, off)
                          IN  loop(i + 1, [fields |-> acc.fields \o sub.fields,
                                           offs   |-> acc.offs \o sub.offs])
                     ELSE loop(i + 1, [fields |-> Append(acc.fields, ft),
                                       offs   |-> Append(acc.offs, off)])
    IN  loop(1, [fields |-> << >>, offs |-> << >>])

(***************************************************************************)
(* The type registry.  A Go string is the sequence of its bytes.           *)
(***************************************************************************)
Ord(c) ==
    CASE c = " " -> 32 [] c = "(" -> 40 [] c = ")" -> 41 [] c = "*" -> 42
      [] c = "." -> 46 [] c = "0" -> 48 [] c = "8" -> 56 [] c = "<" -> 60
      [] c = ">" -> 62 [] c = "B" -> 66 [] c = "C" -> 67 [] c = "I" -> 73
      [] c = "N" -> 78 [] c = "S" -> 83 [] c = "[" -> 91 [] c = "]" -> 93
      [] c = "a" -> 97 [] c = "b" -> 98 [] c = "c" -> 99 [] c = "d" -> 100
      [] c = "e" -> 101 [] c = "f" -> 102 [] c = "i" -> 105 [] c = "l" -> 108
      [] c = "m" -> 109 [] c = "n" -> 110 [] c = "o" -> 111 [] c = "p" -> 112
      [] c = "r" -> 114 [] c = "t" -> 116 [] c = "u" -> 117 [] c = "{" -> 123
      [] c = "}" -> 125

Str(cs) == [i \in 1..Len(cs) |-> Ord(cs[i])]

\* strconv.Itoa for 0 .. 99.
Itoa(n) == IF n < 10 THEN <<48 + n>> ELSE <<48 + (n \div 10), 48 + (n % 10)>>

\* reflect.Type.Name and PkgPath: empty for the unnamed composite types.
TypeName(t) ==
    CASE t = "bool" -> Str(<<"b", "o", "o", "l">>)
      [] t = "uint8" -> Str(<<"u", "i", "n", "t", "8">>)
      [] t = "main.Color" -> Str(<<"C", "o", "l", "o", "r">>)
      [] t = "main.Node" -> Str(<<"N", "o", "d", "e">>)
      [] t = "main.In" -> Str(<<"I", "n">>)
      [] t = "main.S" -> Str(<<"S">>)
      [] t = "main.Bad" -> Str(<<"B", "a", "d">>)
      [] OTHER -> << >>

PkgPath(t) ==
    IF t \in {"main.Color", "main.Node", "main.In", "main.S", "main.Bad"}
    THEN Str(<<"m", "a", "i", "n">>) ELSE << >>

\* getName: the canonical name of rt appended to prefix.
RECURSIVE getName(_, _)
getName(prefix, rt) ==
    IF TypeName(rt) = << >>
    THEN CASE Kind(rt) = "ptr" -> getName(prefix \o Str(<<"*">>), Elem(rt))
           [] Kind(rt) = "array" ->
                getName(prefix \o Str(<<"[">>) \o Itoa(ArrayLen(rt)) \o Str(<<"]">>), Elem(rt))
           [] Kind(rt) = "slice" -> getName(prefix \o Str(<<"[", "]">>), Elem(rt))
           [] Kind(rt) = "map" ->
                getName(getName(prefix \o Str(<<"m", "a", "p", "[">>), Key(rt))
                            \o Str(<<"]">>), Elem(rt))
           [] Kind(rt) = "func" -> prefix \o Str(<<"f", "u", "n", "c", "(", ")">>)
           [] Kind(rt) = "struct" ->
                prefix \o Str(<<"s", "t", "r", "u", "c", "t", " ", "{", "}">>)
           [] Kind(rt) = "interface" ->
                prefix \o Str(<<"i", "n", "t", "e", "r", "f", "a", "c", "e", " ", "{", "}">>)
           [] OTHER -> prefix \o Str(<<"<", "n", "i", "l", ">">>)
    ELSE IF PkgPath(rt) = << >> THEN prefix \o TypeName(rt)
    ELSE prefix \o PkgPath(rt) \o Str(<<".">>) \o TypeName(rt)

GetNameByType(rt) == getName(<< >>, rt)

(***************************************************************************)
(* Engines and the engine caches.  An engine is a record of the heap engs, *)
(* named by its position: the primitive engines are the package-level      *)
(* functions, a closure built by buildEncEngine / buildDecEngine is added  *)
(* when it is created.  comps are the engine variables the closure         *)
(* captured (0 is nil), offs the member offsets of a struct engine.        *)
(***************************************************************************)
PrimOps == << "decBool", "decUint8", "decUint16", "decUint32", "decUint64",
              "decString", "decBytes", "decTime", "decIgnore",
              "encBool", "encUint8", "encUint16", "encUint32", "encUint64",
              "encString", "encBytes", "encTime", "encIgnore" >>

PrimEngs ==
    [i \in 1..Len(PrimOps) |->
        [op |-> PrimOps[i], dir |-> IF i <= 9 THEN "dec" ELSE "enc",
         rt |-> "", comps |-> << >>, offs |-> << >>]]

EngId(op) == CHOOSE i \in 1..Len(PrimOps) : PrimOps[i] = op

\* the primitive engine of a type of the initial rt2decEng / rt2encEng table.
PrimOf(dir, t) ==
    LET suffix == CASE t = "bool" -> "Bool" [] t = "uint8" -> "Uint8"
                    [] t = "uint16" -> "Uint16" [] t = "uint32" -> "Uint32"
                    [] t = "uint64" -> "Uint64" [] t = "string" -> "String"
                    [] t = "[]uint8" -> "Bytes" [] t = "time.Time" -> "Time"
                    [] t \in {"struct {}", "<nil>"} -> "Ignore"
    IN  IF dir = "dec"
        THEN EngId(CASE suffix = "Bool" -> "decBool" [] suffix = "Uint8" -> "decUint8"
                     [] suffix = "Uint16" -> "decUint16" [] suffix = "Uint32" -> "decUint32"
                     [] suffix = "Uint64" -> "decUint64" [] suffix = "String" -> "decString"
                     [] suffix = "Bytes" -> "decBytes" [] suffix = "Time" -> "decTime"
                     [] suffix = "Ignore" -> "decIgnore")
        ELSE EngId(CASE suffix = "Bool" -> "encBool" [] suffix = "Uint8" -> "encUint8"
                     [] suffix = "Uint16" -> "encUint16" [] suffix = "Uint32" -> "encUint32"
                     [] suffix = "Uint64" -> "encUint64" [] suffix = "String" -> "encString"
                     [] suffix = "Bytes" -> "encBytes" [] suffix = "Time" -> "encTime"
                     [] suffix = "Ignore" -> "encIgnore")

\* the initial value of rt2decEng / rt2encEng (0: no entry).
InitCache(dir) == [t \in Types |-> IF t \in PrimTypes THEN PrimOf(dir, t) ELSE 0]

\* decEngines[kind] / encEngines[kind]: the engine of a named type of a
\* primitive kind.
KindEngine(dir, kind) ==
    IF kind \in {"bool", "uint8", "uint16", "uint32", "uint64", "string"}
    THEN PrimOf(dir, kind) ELSE 0

Cache(dir, w) == IF dir = "dec" THEN w.rt2decEng ELSE w.rt2encEng
\* a variant of the cache store that keeps one built engine per direction.
SetCacheSingle(dir, w, t, g) ==
    IF dir = "dec"
    THEN [w EXCEPT !.rt2decEng = [x \in Types |-> IF x = t THEN g ELSE InitCache("dec")[x]]]
    ELSE [w EXCEPT !.rt2encEng = [x \in Types |-> IF x = t THEN g ELSE InitCache("enc")[x]]]

SetCache(dir, w, t, g) ==
    IF dir = "dec" THEN [w EXCEPT !.rt2decEng[t] = g] ELSE [w EXCEPT !.rt2encEng[t] = g]

(***************************************************************************)
(* buildDecEngine / buildEncEngine, one call per step.  work is the list   *)
(* of calls still to run, in the order the deferred calls run them: the    *)
(* call at its head is run, and the calls it defers are put in front.  An  *)
(* item is [rt, eng, comp, loop]: build rt and store the result in the     *)
(* captured variable comp of engine eng (eng 0: the caller's variable).    *)
(* loop marks the calls made by the one deferred loop of a struct, which   *)
(* a panic abandons; a call deferred on its own still runs while the       *)
(* panic unwinds.                                                          *)
(***************************************************************************)
SetSlot(cs, item, g) ==
    IF item.eng = 0 THEN [cs EXCEPT !.ret = g]
    ELSE [cs EXCEPT !.w.engs[item.eng].comps[item.comp] = g]

NewEngine(dir, op, rt, n, offs) ==
    [op |-> op, dir |-> dir, rt |-> rt, comps |-> [i \in 1..n |-> 0], offs |-> offs]

\* a variant of StoreEngine that leaves the cache alone until the components
\* are built (and then never gets to it).
StoreEngineUncached(dir, cs, item, E, deferred) ==
    LET g   == Len(cs.w.engs) + 1
        cs1 == [cs EXCEPT !.w.engs = Append(@, E)]
        ds  == [i \in 1..Len(deferred) |-> [deferred[i] EXCEPT !.eng = g]]
    IN  [SetSlot(cs1, item, g) EXCEPT !.work = ds \o Tail(cs.work)]

\* store a freshly made engine for item.rt in the cache and in the caller's
\* variable, and put the deferred builds in front of the work list.
StoreEngine(dir, cs, item, E, deferred) ==
    LET g   == Len(cs.w.engs) + 1
        w1  == [cs.w EXCEPT !.engs = Append(@, E)]
        cs1 == [cs EXCEPT !.w = SetCache(dir, w1, item.rt, g)]
        ds  == [i \in 1..Len(deferred) |-> [deferred[i] EXCEPT !.eng = g]]
    IN  [SetSlot(cs1, item, g) EXCEPT !.work = ds \o Tail(cs.work)]

\* a variant of the case list that has the func kind only.
UnsupportedFuncOnly(kind) == kind = "func"

\* case reflect.Chan, reflect.Func, reflect.Invalid, reflect.UnsafePointer
Unsupported(kind) == kind \in {"chan", "func", "invalid", "unsafe.Pointer"}

\* the body of buildDecEngine / buildEncEngine below the cache lookup.
buildFresh(dir, cs) ==
    LET item  == Head(cs.work)
        rt    == item.rt
        kind  == Kind(rt)
        hatch == implementOtherSerializer(rt)
    IN  IF hatch # "none"
        THEN StoreEngine(dir, cs, item, NewEngine(dir, hatch, rt, 0, << >>), << >>)
        ELSE IF kind \in {"ptr", "array", "slice"}
        THEN StoreEngine(dir, cs, item, NewEngine(dir, kind, rt, 1, << >>),
                 << [rt |-> Elem(rt), eng |-> 0, comp |-> 1, loop |-> FALSE] >>)
        ELSE IF kind = "map"
        THEN StoreEngine(dir, cs, item, NewEngine(dir, kind, rt, 2, << >>),
                 << [rt |-> Elem(rt), eng |-> 0, comp |-> 2, loop |-> FALSE],
                    [rt |-> Key(rt), eng |-> 0, comp |-> 1, loop |-> FALSE] >>)
        ELSE IF kind = "struct"
        THEN With(getFieldType(rt, 0), LAMBDA ft :
                 StoreEngine(dir, cs, item,
                     NewEngine(dir, kind, rt, Len(ft.fields), ft.offs),
                     [i \in 1..Len(ft.fields) |->
                         [rt |-> ft.fields[i], eng |-> 0, comp |-> i, loop |-> TRUE]]))
        ELSE IF kind = "interface"
        THEN StoreEngine(dir, cs, item, NewEngine(dir, kind, rt, 0, << >>), << >>)
        ELSE IF Unsupported(kind)
        THEN [cs EXCEPT !.panicking = TRUE, !.named = rt,
                        !.work = SelectSeq(Tail(cs.work), LAMBDA it : ~it.loop)]
        ELSE LET g == KindEngine(dir, kind)
             IN  [SetSlot([cs EXCEPT !.w = SetCache(dir, cs.w, rt, g)], item, g)
                     EXCEPT !.work = Tail(cs.work)]

\* a variant of the build that does not look in the cache first.
buildStepUnchecked(dir, cs) == buildFresh(dir, cs)

\* one call of buildDecEngine / buildEncEngine: the engine of the cache if
\* the type has one, a new engine otherwise.
buildStep(dir, cs) ==
    LET item == Head(cs.work)
    IN  IF Cache(dir, cs.w)[item.rt] # 0
        THEN [SetSlot(cs, item, Cache(dir, cs.w)[item.rt]) EXCEPT !.work = Tail(cs.work)]
        ELSE buildFresh(dir, cs)

buildDecEngine(cs) == buildStep("dec", cs)
buildEncEngine(cs) == buildStep("enc", cs)

\* the deferred calls of one build run to the end, at most fuel of them.
RECURSIVE runBuild(_, _, _)
runBuild(dir, cs, fuel) ==
    IF cs.work = << >> \/ fuel = 0 THEN cs
    ELSE runBuild(dir, IF dir = "dec" THEN buildDecEngine(cs) ELSE buildEncEngine(cs),
                  fuel - 1)

\* the most build calls one compile is allowed in the model.
MaxBuild == 12

\* a variant of the lock test that finds the lock free at all times.
LockNeverHeld(dir, w) == 0

Lock(dir, w) == IF dir = "dec" THEN w.decLock ELSE w.encLock
SetLock(dir, w, v) == IF dir = "dec" THEN [w EXCEPT !.decLock = v] ELSE [w EXCEPT !.encLock = v]

\* getDecEngine / getEncEngine run by a single thread: [w, eng, st].  st is
\* "ok", "panic" (an unsupported shape; the exclusive lock stays held),
\* "hang" (the lock is held for good, RLock never returns) or "diverge" (the
\* build did not end within MaxBuild calls); named is the type the panic
\* message names.
getEngine(dir, w, rt) ==
    IF Lock(dir, w) # 0 THEN [w |-> w, eng |-> 0, st |-> "hang", named |-> ""]
    ELSE IF Cache(dir, w)[rt] # 0
    THEN [w |-> w, eng |-> Cache(dir, w)[rt], st |-> "ok", named |-> ""]
    ELSE With(runBuild(dir,
                       [w |-> SetLock(dir, w, 1), panicking |-> FALSE, named |-> "",
                        ret |-> 0,
                        work |-> << [rt |-> rt, eng |-> 0, comp |-> 0, loop |-> FALSE] >>],
                       MaxBuild),
              LAMBDA cs :
                IF cs.work # << >>
                THEN [w |-> cs.w, eng |-> 0, st |-> "diverge", named |-> ""]
                ELSE IF cs.panicking
                THEN [w |-> cs.w, eng |-> 0, st |-> "panic", named |-> cs.named]
                ELSE [w |-> SetLock(dir, cs.w, 0), eng |-> cs.ret, st |-> "ok",
                      named |-> ""])

getDecEngine(w, rt) == getEngine("dec", w, rt)
getEncEngine(w, rt) == getEngine("enc", w, rt)

\* UnusedUnixNanoEncodeTimeType: both entries of time.Time are deleted.
UnusedUnixNanoEncodeTimeType(w) ==
    [w EXCEPT !.rt2encEng["time.Time"] = 0, !.rt2decEng["time.Time"] = 0]

\* a variant of RegisterName that does not look whether the name is taken.
RegisterNameAnyName(w, name, rt) ==
    IF name = << >> THEN [w |-> w, st |-> "panic"]
    ELSE IF Kind(rt) = "invalid" THEN [w |-> w, st |-> "panic"]
    ELSE IF rt \in DOMAIN w.type2name THEN [w |-> w, st |-> "panic"]
    ELSE [w |-> [w EXCEPT !.name2type = (name :> rt) @@ @,
                          !.type2name = (rt :> name) @@ @],
          st |-> "ok"]

\* a variant of RegisterName that enters the name before it looks whether the
\* type is registered.
RegisterNameEarly(w, name, rt) ==
    IF name = << >> THEN [w |-> w, st |-> "panic"]
    ELSE IF Kind(rt) = "invalid" THEN [w |-> w, st |-> "panic"]
    ELSE IF name \in DOMAIN w.name2type THEN [w |-> w, st |-> "panic"]
    ELSE IF rt \in DOMAIN w.type2name
         THEN [w |-> [w EXCEPT !.name2type = (name :> rt) @@ @], st |-> "panic"]
    ELSE [w |-> [w EXCEPT !.name2type = (name :> rt) @@ @,
                          !.type2name = (rt :> name) @@ @],
          st |-> "ok"]

\* RegisterName: [w, st]; a panic leaves both maps as they were.
RegisterName(w, name, rt) ==
    IF name = << >> THEN [w |-> w, st |-> "panic"]
    ELSE IF Kind(rt) = "invalid" THEN [w |-> w, st |-> "panic"]
    ELSE IF rt \in DOMAIN w.type2name THEN [w |-> w, st |-> "panic"]
    ELSE IF name \in DOMAIN w.name2type THEN [w |-> w, st |-> "panic"]
    ELSE [w |-> [w EXCEPT !.name2type = (name :> rt) @@ @,
                          !.type2name = (rt :> name) @@ @],
          st |-> "ok"]

\* registerType: [w, st, name].
registerType(w, rt) ==
    With(GetNameByType(rt), LAMBDA name :
        With(RegisterName(w, name, rt), LAMBDA r :
            [w |-> r.w, st |-> r.st, name |-> name]))

\* Register(i), i of type rt: [w, st, name].
Register(w, rt) == registerType(w, rt)

\* a variant of getNameOfType that does not look for an entry of the type.
getNameOfTypeAlways(w, rt) == registerType(w, rt)

\* getNameOfType: [w, st, name].
getNameOfType(w, rt) ==
    IF rt \in DOMAIN w.type2name
    THEN [w |-> w, st |-> "ok", name |-> w.type2name[rt]]
    ELSE registerType(w, rt)

(***************************************************************************)
(* Values.  bool: TRUE / FALSE.  uint8: 0..255.  uint16/32/64 and          *)
(* time.Time (its UnixNano): a word.  string: its bytes.  pointer: << >>   *)
(* for nil, <<x>> for a pointer to x.  slice: [nil, len, arr, data] with   *)
(* arr the backing array (Len(arr) is the capacity) and data the storage   *)
(* the header points to: "nil", "caller" (made by the caller), "made"      *)
(* (made by the decoder) or "buf" (the buffer decoded).  map: [nil, m]     *)
(* with m a function.  array: a sequence.  struct: the sequence of its     *)
(* memory slots.  interface: << >> for nil, <<type, value>> otherwise.     *)
(***************************************************************************)
NilSlice == [nil |-> TRUE, len |-> 0, arr |-> << >>, data |-> "nil"]
NilMap == [nil |-> TRUE, m |-> << >>]

\* the zero value of a type (reflect.New(t).Elem(), reflect.Zero).
RECURSIVE Zero(_)
Zero(t) ==
    CASE Kind(t) = "bool" -> FALSE
      [] Kind(t) = "uint8" -> 0
      [] Kind(t) = "uint16" -> BV(0, 16)
      [] Kind(t) = "uint32" -> BV(0, 32)
      [] Kind(t) = "uint64" -> BV(0, 64)
      [] t = "time.Time" -> BV(0, 64)
      [] Kind(t) = "slice" -> NilSlice
      [] Kind(t) = "map" -> NilMap
      [] Kind(t) = "array" -> [i \in 1..ArrayLen(t) |-> Zero(Elem(t))]
      [] Kind(t) = "struct" ->
            LET fs == StructFields(t)
                RECURSIVE cat(_)
                cat(i) == IF i > Len(fs) THEN << >>
                          ELSE (IF Kind(fs[i].type) = "struct" /\ fs[i].type # "time.Time"
                                THEN Zero(fs[i].type) ELSE << Zero(fs[i].type) >>)
                               \o cat(i + 1)
            IN  cat(1)
      [] OTHER -> << >>

\* isNil(p): the first word at p is nil (pointer, map, slice data, interface type).
isNil(kind, v) ==
    CASE kind \in {"slice", "map"} -> v.nil
      [] OTHER -> v = << >>

\* the keys of a map in the order one iteration visits them: Go leaves the
\* order open, ord picks ascending or descending.
RECURSIVE KeySeq(_, _)
KeySeq(K, ord) ==
    IF K = {} THEN << >>
    ELSE LET k == IF ord = "asc" THEN CHOOSE x \in K : \A y \in K : x <= y
                  ELSE CHOOSE x \in K : \A y \in K : x >= y
         IN  << k >> \o KeySeq(K \ {k}, ord)

(***************************************************************************)
(* Running an encode engine.  S is [e, w, st, ord]: the Encoder, the       *)
(* process-wide state (caches, engines, registry), "ok" or how the call    *)
(* was cut short, and the map iteration order of this call.                *)
(***************************************************************************)
EncB(S, b) == [S EXCEPT !.e = Encoder_encIsNotNil(S.e, b)]
EncL(S, l) == [S EXCEPT !.e = Encoder_encLength(S.e, l)]

RECURSIVE encRun(_, _, _)
RECURSIVE encSeq(_, _, _, _, _)
RECURSIVE encMap(_, _, _, _)
RECURSIVE encFields(_, _, _, _)

\* elements i..n of the sequence vs, each with engine g.
encSeq(S, g, vs, i, n) ==
    IF i > n \/ S.st # "ok" THEN S
    ELSE encSeq(encRun(S, g, vs[i]), g, vs, i + 1, n)

\* the entries of m with the keys ks: key then value.
encMap(S, E, m, ks) ==
    IF ks = << >> \/ S.st # "ok" THEN S
    ELSE encMap(encRun(encRun(S, E.comps[1], Head(ks)), E.comps[2], m[Head(ks)]),
                E, m, Tail(ks))

\* member engines i.. of a struct engine at their offsets.
encFields(S, E, v, i) ==
    IF i > Len(E.comps) \/ i > Len(E.offs) \/ S.st # "ok" THEN S
    ELSE encFields(encRun(S, E.comps[i], v[E.offs[i] + 1]), E, v, i + 1)

encRun(S, g, v) ==
    IF S.st # "ok" THEN S
    ELSE IF g = 0 THEN [S EXCEPT !.st = "panic"]
    ELSE LET E == S.w.engs[g]
             op == E.op
         IN
      CASE op = "encBool" -> [S EXCEPT !.e = Encoder_encBool(S.e, v)]
        [] op = "encUint8" -> [S EXCEPT !.e = appendBytes(S.e, << v >>)]
        [] op = "encUint16" -> [S EXCEPT !.e = Encoder_encUint16(S.e, v)]
        [] op = "encUint32" -> [S EXCEPT !.e = Encoder_encUint32(S.e, v)]
        [] op \in {"encUint64", "encTime"} -> [S EXCEPT !.e = Encoder_encUint64(S.e, v)]
        [] op = "encString" -> [S EXCEPT !.e = Encoder_encString(S.e, v)]
        [] op = "encBytes" ->
              With(EncB(S, ~v.nil), LAMBDA S1 :
                  IF v.nil THEN S1
                  ELSE [S1 EXCEPT !.e = appendBytes(Encoder_encLength(S1.e, v.len),
                                                    SubSeq(v.arr, 1, v.len))])
        [] op = "encIgnore" -> S
        [] op \in {"Serializer", "bin", "gob"} ->
              [S EXCEPT !.e = appendBytes(Encoder_encLength(S.e, Len(v)), v)]
        [] op = "ptr" ->
              With(EncB(S, v # << >>), LAMBDA S1 :
                  IF v = << >> THEN S1 ELSE encRun(S1, E.comps[1], v[1]))
        [] op = "array" -> encSeq(S, E.comps[1], v, 1, ArrayLen(E.rt))
        [] op = "slice" ->
              With(EncB(S, ~v.nil), LAMBDA S1 :
                  IF v.nil THEN S1
                  ELSE encSeq(EncL(S1, v.len), E.comps[1], v.arr, 1, v.len))
        [] op = "map" ->
              With(EncB(S, ~v.nil), LAMBDA S1 :
                  IF v.nil THEN S1
                  ELSE encMap(EncL(S1, Cardinality(DOMAIN v.m)), E, v.m,
                              KeySeq(DOMAIN v.m, S.ord)))
        [] op = "struct" -> encFields(S, E, v, 1)
        [] op = "interface" ->
              With(EncB(S, v # << >>), LAMBDA S1 :
                  IF v = << >> THEN S1
                  ELSE With(getNameOfType(S1.w, v[1]), LAMBDA nm :
                      IF nm.st # "ok" THEN [S1 EXCEPT !.w = nm.w, !.st = nm.st]
                      ELSE With(getEncEngine(nm.w, v[1]), LAMBDA ge :
                          encRun([S1 EXCEPT !.e = Encoder_encString(S1.e, nm.name),
                                            !.w = ge.w, !.st = ge.st],
                                 ge.eng, v[2]))))

(***************************************************************************)
(* Running a decode engine on the memory at p.  S is [d, w, st]; cur is    *)
(* what p holds before.  The result is [s, v]: the state and what p holds  *)
(* afterwards, which after a panic is whatever had been written by then.   *)
(***************************************************************************)
DecR(S, v) == [s |-> S, v |-> v]
Panic(S) == [S EXCEPT !.st = "panic"]

\* apply a Decoder method result r to S.
Took(S, r) == [S EXCEPT !.d = r.d, !.st = IF r.panic THEN "panic" ELSE "ok"]

\* d.buf[d.index : d.index+l]; buffers have no spare capacity in the model.
SliceOK(d, l) == d.index + l <= Len(d.buf)
Bytes(d, l) == SubSeq(d.buf, d.index + 1, d.index + l)

\* a value of a pointer-shaped type held in an interface is decoded through a
\* copy of its pointer word (getUnsafePointer returns the address of the
\* reflect.Value's own ptr field): what is written through the old pointer
\* stays, a new pointer word is lost.
PointerShaped(t) == Kind(t) \in {"ptr", "map", "func", "chan", "unsafe.Pointer"}

ThroughCopy(t, old, new) ==
    IF isNil(Kind(t), old) \/ isNil(Kind(t), new) THEN old ELSE new

\* a variant of the lookup that takes a name without entry for uint8.
typeOfNameOrUint8(w, name) ==
    IF name \in DOMAIN w.name2type
    THEN [has |-> TRUE, elementType |-> w.name2type[name]]
    ELSE [has |-> TRUE, elementType |-> "uint8"]

\* elementType, has := name2type[name]
typeOfName(w, name) ==
    IF name \in DOMAIN w.name2type
    THEN [has |-> TRUE, elementType |-> w.name2type[name]]
    ELSE [has |-> FALSE, elementType |-> "<nil>"]

\* a variant of the test that also makes new storage when the capacity is
\* the count.
MakesSliceAtCap(cur, l) == cur.nil \/ Len(cur.arr) <= l

\* isNil(p) || header.cap < l: the slice decode makes new storage.
MakesSlice(cur, l) == cur.nil \/ Len(cur.arr) < l

RECURSIVE decRun(_, _, _)
RECURSIVE decSeq(_, _, _, _, _)
RECURSIVE decMap(_, _, _, _, _)
RECURSIVE decFields(_, _, _, _)

\* elements i..n of the sequence vs in place, each with engine g.
decSeq(S, g, vs, i, n) ==
    IF i > n \/ S.st # "ok" THEN DecR(S, vs)
    ELSE With(decRun(S, g, vs[i]), LAMBDA r :
             decSeq(r.s, g, [vs EXCEPT ![i] = r.v], i + 1, n))

\* n entries into m: key and value are decoded into one pair of variables,
\* stored with SetMapIndex, and the pair is set back to zero.
decMap(S, E, m, i, n) ==
    IF i > n \/ S.st # "ok" THEN DecR(S, m)
    ELSE With(decRun(S, E.comps[1], Zero(Key(E.rt))), LAMBDA k :
         With(decRun(k.s, E.comps[2], Zero(Elem(E.rt))), LAMBDA v :
             IF v.s.st # "ok" THEN DecR(v.s, m)
             ELSE decMap(v.s, E, (k.v :> v.v) @@ m, i + 1, n)))

decFields(S, E, v, i) ==
    IF i > Len(E.comps) \/ i > Len(E.offs) \/ S.st # "ok" THEN DecR(S, v)
    ELSE With(decRun(S, E.comps[i], v[E.offs[i] + 1]), LAMBDA r :
             decFields(r.s, E, [v EXCEPT ![E.offs[i] + 1] = r.v], i + 1))

\* the IsNotNil flag, then body(b) if it is set and none if it is not.
decFlagged(S, cur, none, body(_)) ==
    With(Decoder_decIsNotNil(S.d), LAMBDA b :
        IF b.panic THEN DecR(Took(S, b), cur)
        ELSE IF ~b.b THEN DecR(Took(S, b), none)
        ELSE body(Took(S, b)))

\* a length, then body(S, l).
decCounted(S, cur, body(_, _)) ==
    With(Decoder_decLength(S.d), LAMBDA r :
        IF r.panic THEN DecR(Took(S, r), cur) ELSE body(Took(S, r), r.l))

\* l bytes of the buffer.
decTake(S, cur, l, mk(_)) ==
    IF ~SliceOK(S.d, l) THEN DecR(Panic(S), cur)
    ELSE DecR([S EXCEPT !.d.index = @ + l], mk(Bytes(S.d, l)))

decRun(S, g, cur) ==
    IF S.st # "ok" THEN DecR(S, cur)
    ELSE IF g = 0 THEN DecR(Panic(S), cur)
    ELSE LET E == S.w.engs[g]
             op == E.op
         IN
      CASE op = "decBool" ->
              With(Decoder_decBool(S.d), LAMBDA r :
                  DecR(Took(S, r), IF r.panic THEN cur ELSE r.b))
        [] op = "decUint8" ->
              IF ~InBuf(S.d, 0) THEN DecR(Panic(S), cur)
              ELSE DecR([S EXCEPT !.d.index = @ + 1], At(S.d, 0))
        [] op = "decUint16" ->
              With(Decoder_decUint16(S.d), LAMBDA r :
                  DecR(Took(S, r), IF r.panic THEN cur ELSE r.v))
        [] op = "decUint32" ->
              With(Decoder_decUint32(S.d), LAMBDA r :
                  DecR(Took(S, r), IF r.panic THEN cur ELSE r.v))
        [] op \in {"decUint64", "decTime"} ->
              With(Decoder_decUint64(S.d), LAMBDA r :
                  DecR(Took(S, r), IF r.panic THEN cur ELSE r.v))
        [] op = "decString" ->
              decCounted(S, cur, LAMBDA S1, l : decTake(S1, cur, l, LAMBDA bs : bs))
        [] op = "decBytes" ->
              decFlagged(S, cur, NilSlice, LAMBDA S1 :
                  decCounted(S1, cur, LAMBDA S2, l :
                      decTake(S2, cur, l, LAMBDA bs :
                          [nil |-> FALSE, len |-> l, arr |-> bs, data |-> "buf"])))
        [] op = "decIgnore" -> DecR(S, cur)
        [] op \in {"Serializer", "bin", "gob"} ->
              decCounted(S, cur, LAMBDA S1, l :
                  IF ~SliceOK(S1.d, l) THEN DecR(Panic([S1 EXCEPT !.d.index = @ + l]), cur)
                  ELSE decTake(S1, cur, l, LAMBDA bs : bs))
        [] op = "ptr" ->
              decFlagged(S, cur, << >>, LAMBDA S1 :
                  With(decRun(S1, E.comps[1],
                              IF cur = << >> THEN Zero(Elem(E.rt)) ELSE cur[1]),
                       LAMBDA r : DecR(r.s, << r.v >>)))
        [] op = "array" -> decSeq(S, E.comps[1], cur, 1, ArrayLen(E.rt))
        [] op = "slice" ->
              decFlagged(S, cur, NilSlice, LAMBDA S1 :
                  decCounted(S1, cur, LAMBDA S2, l :
                      With(decSeq(S2, E.comps[1],
                                  IF MakesSlice(cur, l)
                                  THEN [i \in 1..l |-> Zero(Elem(E.rt))]
                                  ELSE cur.arr,
                                  1, l),
                           LAMBDA es : DecR(es.s, [nil |-> FALSE, len |-> l,
                                                   arr |-> es.v,
                                                   data |-> IF MakesSlice(cur, l)
                                                            THEN "made"
                                                            ELSE cur.data]))))
        [] op = "map" ->
              decFlagged(S, cur, NilMap, LAMBDA S1 :
                  decCounted(S1, cur, LAMBDA S2, l :
                      With(decMap(S2, E, cur.m, 1, l),
                           LAMBDA es : DecR(es.s, [nil |-> FALSE, m |-> es.v]))))
        [] op = "struct" -> decFields(S, E, cur, 1)
        [] op = "interface" ->
              decFlagged(S, cur, << >>, LAMBDA S1 :
                With(decRun(S1, EngId("decString"), << >>), LAMBDA nm :
                  IF nm.s.st # "ok" THEN DecR(nm.s, cur)
                  ELSE IF ~typeOfName(S.w, nm.v).has THEN DecR(Panic(nm.s), cur)
                  ELSE With(typeOfName(S.w, nm.v).elementType, LAMBDA et :
                       With(getDecEngine(nm.s.w, et), LAMBDA ge :
                       With([nm.s EXCEPT !.w = ge.w, !.st = ge.st], LAMBDA S2 :
                         IF cur = << >> \/ cur[1] # et
                         THEN With(decRun(S2, ge.eng, Zero(et)), LAMBDA r :
                                  DecR(r.s, IF r.s.st = "ok" THEN << et, r.v >> ELSE cur))
                         ELSE With(decRun(S2, ge.eng, cur[2]), LAMBDA r :
                                  DecR(r.s, << et, IF PointerShaped(et)
                                                   THEN ThroughCopy(et, cur[2], r.v)
                                                   ELSE r.v >>)))))))

(***************************************************************************)
(* Sessions and the top-level calls.                                       *)
(***************************************************************************)
World(enc, dec, es, el, dl, t2n, n2t) ==
    [rt2encEng |-> enc, rt2decEng |-> dec, engs |-> es, encLock |-> el,
     decLock |-> dl, type2name |-> t2n, name2type |-> n2t]

\* the engines of the types ts, resolved one after the other: [w, engines, st].
RECURSIVE getEngines(_, _, _, _, _)
getEngines(dir, w, ts, i, acc) ==
    IF i > Len(ts) THEN [w |-> w, engines |-> acc, st |-> "ok"]
    ELSE With(IF dir = "dec" THEN getDecEngine(w, ts[i]) ELSE getEncEngine(w, ts[i]),
              LAMBDA r :
                IF r.st # "ok" THEN [w |-> r.w, engines |-> acc, st |-> r.st]
                ELSE getEngines(dir, r.w, ts, i + 1, Append(acc, r.eng)))

\* NewEncoderWithPtr / NewEncoder / NewEncoderWithType for values of the types
\* ts: [w, enc, st].
NewEncoderWithType(w, ts) ==
    With(getEngines("enc", w, ts, 1, << >>), LAMBDA r :
        [w |-> r.w, st |-> r.st,
         enc |-> [buf |-> << >>, off |-> 0, boolPos |-> 0, boolBit |-> 0,
                  engines |-> r.engines]])

\* NewDecoderWithPtr / NewDecoder / NewDecoderWithType: [w, dec, st].
NewDecoderWithType(w, ts) ==
    With(getEngines("dec", w, ts, 1, << >>), LAMBDA r :
        [w |-> r.w, st |-> r.st,
         dec |-> [buf |-> << >>, index |-> 0, boolPos |-> 0, boolBit |-> 0,
                  engines |-> r.engines]])

\* Encoder.reset: the buffer is cut back to off and the boolean cursor zeroed;
\* the bytes written are returned.
Encoder_reset(e) ==
    [e |-> [e EXCEPT !.buf = SubSeq(e.buf, 1, e.off), !.boolBit = 0, !.boolPos = 0],
     ret |-> e.buf]

\* Decoder.reset: the cursor is zeroed and the old index returned.
Decoder_reset(d) ==
    [d |-> [d EXCEPT !.index = 0, !.boolPos = 0, !.boolBit = 0], ret |-> d.index]

RECURSIVE encItems(_, _, _, _)
encItems(S, engines, vs, i) ==
    IF i > Len(engines) \/ i > Len(vs) \/ S.st # "ok" THEN S
    ELSE encItems(encRun(S, engines[i], vs[i]), engines, vs, i + 1)

\* Encoder.encode: [e, w, st, ret]; reset is not reached when an engine panics.
Encoder_encode(e, w, vs, ord) ==
    With(encItems([e |-> e, w |-> w, st |-> "ok", ord |-> ord], e.engines, vs, 1),
         LAMBDA S :
           IF S.st # "ok" THEN [e |-> S.e, w |-> S.w, st |-> S.st, ret |-> << >>]
           ELSE With(Encoder_reset(S.e), LAMBDA r :
                    [e |-> r.e, w |-> S.w, st |-> "ok", ret |-> r.ret]))

RECURSIVE decItems(_, _, _, _)
decItems(S, engines, ws, i) ==
    IF i > Len(engines) \/ i > Len(ws) \/ S.st # "ok" THEN DecR(S, ws)
    ELSE With(decRun(S, engines[i], ws[i]), LAMBDA r :
             decItems(r.s, engines, [ws EXCEPT ![i] = r.v], i + 1))

\* Decoder.decode: [d, w, st, ret, vs] with vs what the destinations hold
\* afterwards; reset is not reached when an engine panics.
Decoder_decode(d, w, buf, ws) ==
    With(decItems([d |-> [d EXCEPT !.buf = buf], w |-> w, st |-> "ok"], d.engines, ws, 1),
         LAMBDA r :
           IF r.s.st # "ok"
           THEN [d |-> r.s.d, w |-> r.s.w, st |-> r.s.st, ret |-> 0, vs |-> r.v]
           ELSE With(Decoder_reset(r.s.d), LAMBDA z :
                    [d |-> z.d, w |-> r.s.w, st |-> "ok", ret |-> z.ret, vs |-> r.v]))

\* Marshal(ps...): [w, st, ret].
Marshal(w, ts, vs, ord) ==
    With(NewEncoderWithType(w, ts), LAMBDA n :
        IF n.st # "ok" THEN [w |-> n.w, st |-> n.st, ret |-> << >>]
        ELSE With(Encoder_encode(n.enc, n.w, vs, ord), LAMBDA r :
                 [w |-> r.w, st |-> r.st, ret |-> r.ret]))

\* Unmarshal(buf, is...): [w, st, ret, vs].
Unmarshal(w, buf, ts, ws) ==
    With(NewDecoderWithType(w, ts), LAMBDA n :
        IF n.st # "ok" THEN [w |-> n.w, st |-> n.st, ret |-> 0, vs |-> ws]
        ELSE With(Decoder_decode(n.dec, n.w, buf, ws), LAMBDA r :
                 [w |-> r.w, st |-> r.st, ret |-> r.ret, vs |-> r.vs]))

(***************************************************************************)
(* The values the calls are tried on.                                      *)
(***************************************************************************)
Sl(es) == [nil |-> FALSE, len |-> Len(es), arr |-> es, data |-> "caller"]
Mp(f) == [nil |-> FALSE, m |-> f]

\* every single bit and every run of low bits: the varint length boundaries.
U64Vals == {BVBits({k}, 64) : k \in 0..63} \cup {BVBits(0..(k - 1), 64) : k \in 0..64}

\* a list of n nodes, Val counting down from n.
RECURSIVE Chain(_)
Chain(n) == IF n = 0 THEN << >> ELSE << << n, Chain(n - 1) >> >>

Vals(t) ==
    CASE t = "bool" -> BOOLEAN
      [] t = "uint8" -> {0, 200}
      [] t = "uint16" -> {BV(0, 16), BV(127, 16), BV(128, 16), BV(16383, 16),
                          BV(16384, 16), BV(65535, 16)}
      [] t = "uint32" -> {BV(0, 32), BV(300, 32), BVBits({28}, 32), BVBits(0..31, 32)}
      [] t = "uint64" -> U64Vals
      [] t = "string" -> {<< >>, <<104, 105>>}
      [] t = "[]uint8" -> {NilSlice, Sl(<< >>), Sl(<<1, 2>>)}
      [] t = "main.Color" -> {0, 7}
      [] t = "*uint8" -> {<< >>, <<0>>, <<200>>}
      [] t = "**uint8" -> {<< >>, << << >> >>, << <<5>> >>}
      [] t = "[]*uint8" -> {NilSlice, Sl(<< >>), Sl(<< << >> >>), Sl(<< <<1>>, << >> >>),
                            Sl(<< <<1>>, <<2>> >>)}
      [] t = "map[uint8]bool" -> {NilMap, Mp(<< >>), Mp(1 :> TRUE),
                                  Mp((1 :> FALSE) @@ (2 :> TRUE))}
      [] t = "[N]bool" -> [1..NBools -> BOOLEAN]
      [] t = "[N]*uint8" -> [1..NBools -> {<< >>, <<7>>}]
      [] t = "main.Node" -> {Chain(n)[1] : n \in 1..MaxChain}
      [] t = "*main.Node" -> {Chain(n) : n \in 0..MaxChain}
      [] t = "main.In" -> {<<TRUE, 5>>}
      [] t = "main.S" -> {<<TRUE, 0, FALSE, 5, 9>>, <<FALSE, 3, TRUE, 0, 1>>}
      [] t = "interface {}" ->
            {<< >>, <<"main.Color", 7>>, <<"*uint8", << >> >>, <<"*uint8", <<5>> >>,
             <<"map[uint8]bool", NilMap>>, <<"map[uint8]bool", Mp(1 :> TRUE)>>}

\* what a destination may hold before a decode: the zero value, and values
\* that are not nil, longer, shorter, or of another concrete type.
Priors(t) ==
    {Zero(t)} \cup
    CASE t \in {"uint64", "uint16", "uint32", "[N]bool", "[N]*uint8"} -> {}
      [] t = "[]*uint8" -> Vals(t) \cup
            {[nil |-> FALSE, len |-> 1, arr |-> << <<9>>, <<8>>, << >> >>,
              data |-> "caller"]}
      [] OTHER -> Vals(t)

\* the argument lists of one Marshal / Unmarshal pair.
TypeLists ==
    {<< t >> : t \in {"bool", "uint8", "uint16", "uint32", "uint64", "string", "[]uint8",
                      "main.Color", "*uint8", "**uint8", "[]*uint8", "map[uint8]bool",
                      "[N]bool", "[N]*uint8", "main.Node", "*main.Node", "main.In",
                      "main.S", "interface {}"}}
    \cup {<<"string", "[]uint8">>, <<"*uint8", "[]*uint8">>, <<"bool", "interface {}">>}

\* the sequences whose i-th element is in F(ts[i]).
RECURSIVE Lists(_, _)
Lists(F(_), ts) ==
    IF ts = << >> THEN {<< >>}
    ELSE {<< x >> \o r : x \in F(Head(ts)), r \in Lists(F, Tail(ts))}

ValLists(ts) == Lists(Vals, ts)
PriorLists(ts) == Lists(Priors, ts)
ZeroList(ts) == [i \in 1..Len(ts) |-> Zero(ts[i])]

\* the types of the memory slots of a struct type.
RECURSIVE SlotTypes(_)
SlotTypes(t) ==
    LET fs == StructFields(t)
        RECURSIVE cat(_)
        cat(i) == IF i > Len(fs) THEN << >>
                  ELSE (IF Kind(fs[i].type) = "struct" /\ fs[i].type # "time.Time"
                        THEN SlotTypes(fs[i].type) ELSE << fs[i].type >>) \o cat(i + 1)
    IN  cat(1)

\* a value up to deep structural equality (reflect.DeepEqual): of a slice
\* only the elements below len count.
RECURSIVE Norm(_, _)
Norm(t, v) ==
    CASE Kind(t) = "ptr" -> IF v = << >> THEN v ELSE << Norm(Elem(t), v[1]) >>
      [] Kind(t) = "slice" ->
            [nil |-> v.nil, len |-> v.len,
             arr |-> [i \in 1..v.len |-> Norm(Elem(t), v.arr[i])]]
      [] Kind(t) = "map" ->
            [nil |-> v.nil, m |-> [k \in DOMAIN v.m |-> Norm(Elem(t), v.m[k])]]
      [] Kind(t) = "array" -> [i \in 1..Len(v) |-> Norm(Elem(t), v[i])]
      [] Kind(t) = "struct" /\ t # "time.Time" ->
            [i \in 1..Len(v) |-> Norm(SlotTypes(t)[i], v[i])]
      [] Kind(t) = "interface" -> IF v = << >> THEN v ELSE << v[1], Norm(v[1], v[2]) >>
      [] OTHER -> v

NormList(ts, vs) == [i \in 1..Len(ts) |-> Norm(ts[i], vs[i])]

(***************************************************************************)
(* The state of one process: the two engine caches with their locks, the   *)
(* engines built so far, the type registry, and what the callers hold: the *)
(* arguments and results of the top-level call in progress, the retained   *)
(* Encoder and Decoder, and the goroutines inside getEncEngine or          *)
(* getDecEngine.                                                           *)
(***************************************************************************)
VARIABLES rt2encEng, rt2decEng, engs, encLock, decLock, type2name, name2type,
          call, enc, dec, gor

world == << rt2encEng, rt2decEng, engs, encLock, decLock, type2name, name2type >>
vars == << rt2encEng, rt2decEng, engs, encLock, decLock, type2name, name2type,
           call, enc, dec, gor >>

W == World(rt2encEng, rt2decEng, engs, encLock, decLock, type2name, name2type)

SetW(w) ==
    /\ rt2encEng' = w.rt2encEng
    /\ rt2decEng' = w.rt2decEng
    /\ engs' = w.engs
    /\ encLock' = w.encLock
    /\ decLock' = w.decLock
    /\ type2name' = w.type2name
    /\ name2type' = w.name2type

\* package initialisation: the caches hold the engines of the basic types,
\* the registry is empty, no lock is held.
InitWorld ==
    /\ rt2encEng = InitCache("enc")
    /\ rt2decEng = InitCache("dec")
    /\ engs = PrimEngs
    /\ encLock = 0
    /\ decLock = 0
    /\ type2name = << >>
    /\ name2type = << >>

\* the arguments and results of the last top-level calls: the values encoded
\* (src, of types ts, map order ord) and the bytes returned (wire); the
\* buffer decoded (buf = wire and extra, or a part of wire), what the
\* destinations held (dst0) and hold (dst), the count returned (ret); how the
\* last call ended (st); and, for a call on a retained session, the cursor
\* and the engine list it found (start, engines0) and the calls so far (n);
\* for a registration, the name asked for (name); for a compile, the
\* direction and the type a panic named (dir, named); for an encode on a
\* retained Encoder, whether AppendTo was called just before (appended) and
\* the bytes below the Encoder's offset at the start (buf); for a decode
\* into destinations of other types than the values encoded, these types
\* (into); for the encodes of a retained Encoder whose returned slices are
\* kept, the array its buffer points to (store.arr, its length the
\* capacity), what the slice returned by the first call shows now
\* (store.shown) and whether that slice points into the array (store.alias).
ZeroCursor == [index |-> 0, boolPos |-> 0, boolBit |-> 0]
NoCall == [pc |-> "idle", ts |-> << >>, src |-> << >>, ord |-> "asc", wire |-> << >>,
           extra |-> << >>, buf |-> << >>, dst0 |-> << >>, dst |-> << >>, ret |-> 0,
           st |-> "ok", start |-> ZeroCursor, engines0 |-> << >>, n |-> 0,
           name |-> << >>, dir |-> "", named |-> "", appended |-> FALSE,
           into |-> << >>,
           store |-> [arr |-> << >>, shown |-> << >>, alias |-> FALSE]]

\* no Encoder / Decoder made yet.
NoEncoder == [made |-> FALSE, ts |-> << >>,
              e |-> [buf |-> << >>, off |-> 0, boolPos |-> 0, boolBit |-> 0,
                     engines |-> << >>]]
NoDecoder == [made |-> FALSE, ts |-> << >>,
              d |-> [buf |-> << >>, index |-> 0, boolPos |-> 0, boolBit |-> 0,
                     engines |-> << >>]]

Init ==
    /\ InitWorld
    /\ call = NoCall
    /\ enc = NoEncoder
    /\ dec = NoDecoder
    /\ gor = << >>

\* bytes that may follow the encoded items in the buffer handed to a decode.
Extras == {<< >>, <<255>>}

\* b := Marshal(&v1, ..., &vn)
MarshalCall ==
    /\ call.pc = "idle"
    /\ \E ts \in TypeLists : \E vs \in ValLists(ts) : \E ord \in {"asc", "desc"} :
         \E r \in {Marshal(W, ts, vs, ord)} :
            /\ SetW(r.w)
            /\ call' = [NoCall EXCEPT !.pc = "marshalled", !.ts = ts, !.src = vs,
                                      !.ord = ord, !.wire = r.ret, !.st = r.st]
    /\ UNCHANGED << enc, dec, gor >>

\* n := Unmarshal(b, &w1, ..., &wn), with b the bytes of the Marshal call and
\* possibly more after them.
UnmarshalCall ==
    /\ call.pc = "marshalled"
    /\ call.st = "ok"
    /\ \E extra \in Extras : \E ws \in PriorLists(call.ts) :
         \E r \in {Unmarshal(W, call.wire \o extra, call.ts, ws)} :
            /\ SetW(r.w)
            /\ call' = [call EXCEPT !.pc = "done", !.extra = extra, !.dst0 = ws,
                                    !.dst = r.vs, !.ret = r.ret, !.st = r.st]
    /\ UNCHANGED << enc, dec, gor >>

Next == MarshalCall \/ UnmarshalCall

Spec == Init /\ [][Next]_vars

(***************************************************************************)
(* A retained Encoder and a retained Decoder, used for several calls.  A   *)
(* call that panics is abandoned by its caller (recover), who goes on      *)
(* using the session.                                                      *)
(***************************************************************************)
MaxCalls == 3

SessionLists == {<<"bool", "uint8">>, <<"uint8", "uint8">>, <<"[]uint8">>,
                 <<"bool", "interface {}">>}

\* the values handed to a session: those of Vals, and an interface holding a
\* func, which no engine can be built for.
SessionVals(t) ==
    IF t = "interface {}" THEN {<< >>, <<"main.Color", 7>>, <<"func()", <<1>> >>}
    ELSE Vals(t)

\* the buffers handed to a Decoder: the bytes of the last encode, alone, cut
\* short, or with more after them.
Prefixes(b) == {SubSeq(b, 1, k) : k \in 0..Len(b)}
Buffers == Prefixes(call.wire) \cup {call.wire \o x : x \in Extras}

\* enc := NewEncoderWithType(ts...)
SessionNewEncoder ==
    /\ ~enc.made
    /\ \E ts \in SessionLists : \E r \in {NewEncoderWithType(W, ts)} :
            /\ r.st = "ok"
            /\ SetW(r.w)
            /\ enc' = [made |-> TRUE, ts |-> ts, e |-> r.enc]
    /\ UNCHANGED << call, dec, gor >>

\* dec := NewDecoderWithType(ts...)
SessionNewDecoder ==
    /\ ~dec.made
    /\ \E ts \in SessionLists : \E r \in {NewDecoderWithType(W, ts)} :
            /\ r.st = "ok"
            /\ SetW(r.w)
            /\ dec' = [made |-> TRUE, ts |-> ts, d |-> r.dec]
    /\ UNCHANGED << call, enc, gor >>

\* b := enc.encode(&v1, ..., &vn)
SessionEncode ==
    /\ enc.made
    /\ call.n < MaxCalls
    /\ \E vs \in Lists(SessionVals, enc.ts) : \E ord \in {"asc"} :
         \E r \in {Encoder_encode(enc.e, W, vs, ord)} :
            /\ SetW(r.w)
            /\ enc' = [enc EXCEPT !.e = r.e]
            /\ call' = [NoCall EXCEPT
                           !.pc = "encoded", !.ts = enc.ts, !.src = vs, !.wire = r.ret,
                           !.st = r.st, !.n = call.n + 1, !.engines0 = enc.e.engines,
                           !.start = [index |-> 0, boolPos |-> enc.e.boolPos,
                                      boolBit |-> enc.e.boolBit],
                           !.appended = (call.pc = "appended"),
                           !.buf = SubSeq(enc.e.buf, 1, enc.e.off)]
    /\ UNCHANGED << dec, gor >>

\* n := dec.decode(buf, &w1, ..., &wn) into zero-valued destinations.
SessionDecode ==
    /\ dec.made
    /\ call.n < MaxCalls
    /\ \E buf \in Buffers : \E r \in {Decoder_decode(dec.d, W, buf, ZeroList(dec.ts))} :
            /\ SetW(r.w)
            /\ dec' = [dec EXCEPT !.d = r.d]
            /\ call' = [call EXCEPT
                           !.pc = "decoded", !.buf = buf, !.dst0 = ZeroList(dec.ts),
                           !.dst = r.vs, !.ret = r.ret, !.st = r.st, !.n = call.n + 1,
                           !.engines0 = dec.d.engines,
                           !.start = [index |-> dec.d.index, boolPos |-> dec.d.boolPos,
                                      boolBit |-> dec.d.boolBit]]
    /\ UNCHANGED << enc, gor >>

NextSession ==
    SessionNewEncoder \/ SessionNewDecoder \/ SessionEncode \/ SessionDecode

SpecSession == Init /\ [][NextSession]_vars

(***************************************************************************)
(* A retained Encoder whose caller keeps the slice the first encode        *)
(* returned.  A Go slice is a view of an array: reset returns e.buf and    *)
(* keeps e.buf[:e.off], a view of the same array, and the appends of the   *)
(* next encode write into that array as long as its capacity is enough.    *)
(* The encodings of the model are shorter than the capacity the first      *)
(* append gives, so the array changes at the first append of the first     *)
(* call only.                                                              *)
(***************************************************************************)
AliasLists == {<<"bool", "uint8">>, <<"uint8", "uint8">>, <<"[]uint8">>, <<"uint16">>}

\* the capacity append gives a byte slice of capacity oldCap that has to
\* hold needed bytes (sizes up to 32).
growslice(oldCap, needed) ==
    LET want == IF needed > 2 * oldCap THEN needed ELSE 2 * oldCap
    IN  8 * ((want + 7) \div 8)

\* the array of the Encoder after an encode that returned ret.
ArrayAfter(arr, ret) ==
    IF Len(ret) <= Len(arr) THEN ret \o SubSeq(arr, Len(ret) + 1, Len(arr))
    ELSE ret \o [i \in 1..(growslice(Len(arr), Len(ret)) - Len(ret)) |-> 0]

\* enc := NewEncoderWithType(ts...)
AliasNewEncoder ==
    /\ ~enc.made
    /\ \E ts \in AliasLists : \E r \in {NewEncoderWithType(W, ts)} :
            /\ r.st = "ok"
            /\ SetW(r.w)
            /\ enc' = [made |-> TRUE, ts |-> ts, e |-> r.enc]
    /\ UNCHANGED << call, dec, gor >>

\* b := enc.encode(&v1, ..., &vn); the slice of the first call is kept.
AliasEncode ==
    /\ enc.made
    /\ call.n < MaxCalls
    /\ \E vs \in Lists(Vals, enc.ts) : \E r \in {Encoder_encode(enc.e, W, vs, "asc")} :
         \E fits \in {Len(r.ret) <= Len(call.store.arr)} :
         \E arr \in {ArrayAfter(call.store.arr, r.ret)} :
            /\ SetW(r.w)
            /\ enc' = [enc EXCEPT !.e = r.e]
            /\ call' = IF call.n = 0
                       THEN [NoCall EXCEPT
                                !.pc = "encoded", !.ts = enc.ts, !.src = vs,
                                !.wire = r.ret, !.st = r.st, !.n = 1,
                                !.store = [arr |-> arr, shown |-> r.ret,
                                           alias |-> TRUE]]
                       ELSE [call EXCEPT
                                !.st = r.st, !.n = call.n + 1,
                                !.store = [arr |-> arr,
                                           shown |-> IF call.store.alias /\ fits
                                                     THEN SubSeq(arr, 1, Len(call.wire))
                                                     ELSE call.store.shown,
                                           alias |-> call.store.alias /\ fits]]
    /\ UNCHANGED << dec, gor >>

NextAlias == AliasNewEncoder \/ AliasEncode

SpecAlias == Init /\ [][NextAlias]_vars

(***************************************************************************)
(* A retained Encoder whose caller hands it buffers to append to.          *)
(***************************************************************************)
AppendBuffers == {<< >>, <<9>>, <<9, 8>>}

\* Encoder.AppendTo
Encoder_AppendTo(e, buf) == [e EXCEPT !.off = Len(buf), !.buf = buf]

\* enc.AppendTo(b)
SessionAppendTo ==
    /\ enc.made
    /\ call.pc # "appended"
    /\ \E b \in AppendBuffers :
            /\ enc' = [enc EXCEPT !.e = Encoder_AppendTo(enc.e, b)]
            /\ call' = [NoCall EXCEPT !.pc = "appended", !.n = call.n, !.buf = b]
    /\ UNCHANGED << world, dec, gor >>

NextAppend == SessionNewEncoder \/ SessionEncode \/ SessionAppendTo

SpecAppend == Init /\ [][NextAppend]_vars

(***************************************************************************)
(* The variable-length integers on their own: a value is encoded, or a     *)
(* buffer of any bytes arrives, and a Decoder with that buffer reads one   *)
(* integer of a width.                                                     *)
(***************************************************************************)
MaxRaw == 10
VarintTypes == {"uint16", "uint32", "uint64"}

\* buffers of up to MaxRaw bytes, each with or without the high bit.
RECURSIVE RawBuffers(_)
RawBuffers(n) ==
    IF n = 0 THEN {<< >>}
    ELSE {<< >>} \cup {<< b >> \o r : b \in {5, 200}, r \in RawBuffers(n - 1)}

\* e.encUintNN(v) on an Encoder with an empty buffer.
VarintEncode ==
    /\ call.pc = "idle"
    /\ \E t \in VarintTypes : \E v \in Vals(t) :
         \E e \in {CASE t = "uint16" -> Encoder_encUint16(NoEncoder.e, v)
                     [] t = "uint32" -> Encoder_encUint32(NoEncoder.e, v)
                     [] t = "uint64" -> Encoder_encUint64(NoEncoder.e, v)} :
            call' = [NoCall EXCEPT !.pc = "written", !.ts = << t >>, !.src = << v >>,
                                   !.wire = e.buf, !.buf = e.buf]
    /\ UNCHANGED << world, enc, dec, gor >>

\* a buffer from elsewhere.
VarintReceive ==
    /\ call.pc = "idle"
    /\ \E t \in VarintTypes : \E b \in RawBuffers(MaxRaw) :
            call' = [NoCall EXCEPT !.pc = "arrived", !.ts = << t >>, !.buf = b]
    /\ UNCHANGED << world, enc, dec, gor >>

\* d.decUintNN() on a Decoder at index 0 of the buffer.
VarintDecode ==
    /\ call.pc \in {"written", "arrived"}
    /\ \E d \in {[NoDecoder.d EXCEPT !.buf = call.buf]} :
         \E r \in {CASE call.ts[1] = "uint16" -> Decoder_decUint16(d)
                     [] call.ts[1] = "uint32" -> Decoder_decUint32(d)
                     [] call.ts[1] = "uint64" -> Decoder_decUint64(d)} :
            call' = [call EXCEPT !.pc = "read", !.dst = << r.v >>, !.ret = r.d.index,
                                 !.st = IF r.panic THEN "panic" ELSE "ok"]
    /\ UNCHANGED << world, enc, dec, gor >>

NextVarint == VarintEncode \/ VarintReceive \/ VarintDecode

SpecVarint == Init /\ [][NextVarint]_vars

(***************************************************************************)
(* The mapping between signed and unsigned integers on its own: a signed   *)
(* value of a width is mapped to unsigned, and the result mapped back.     *)
(***************************************************************************)
MaxSmall == 6
Widths == {16, 32, 64}

\* the signed word of width w for a small integer n.
SBV(n, w) == IF n >= 0 THEN BV(n, w) ELSE NegBV(BV(-n, w))

\* small values of either sign, the powers of two and their neighbours of
\* either sign, among them the least and the greatest value of the width.
SignedVals(w) ==
    {SBV(n, w) : n \in (-MaxSmall)..MaxSmall}
    \cup {BVBits({k}, w) : k \in 0..(w - 1)}
    \cup {BVBits(0..(k - 1), w) : k \in 1..(w - 1)}
    \cup {NegBV(BVBits({k}, w)) : k \in 0..(w - 2)}
    \cup {NotBV(BVBits({k}, w)) : k \in 0..(w - 2)}

intToUint(w, v) ==
    CASE w = 16 -> int16ToUint16(v) [] w = 32 -> int32ToUint32(v)
      [] w = 64 -> int64ToUint64(v)

uintToInt(w, u) ==
    CASE w = 16 -> uint16ToInt16(u) [] w = 32 -> uint32ToInt32(u)
      [] w = 64 -> uint64ToInt64(u)

\* u := intNToUintN(v)
ZigzagToUint ==
    /\ call.pc = "idle"
    /\ \E w \in Widths : \E v \in SignedVals(w) :
            call' = [NoCall EXCEPT !.pc = "mapped", !.n = w, !.src = << v >>,
                                   !.dst = << intToUint(w, v) >>]
    /\ UNCHANGED << world, enc, dec, gor >>

\* v2 := uintNToIntN(u)
ZigzagToInt ==
    /\ call.pc = "mapped"
    /\ call' = [call EXCEPT !.pc = "back",
                            !.dst = << call.dst[1], uintToInt(call.n, call.dst[1]) >>]
    /\ UNCHANGED << world, enc, dec, gor >>

NextZigzag == ZigzagToUint \/ ZigzagToInt

SpecZigzag == Init /\ [][NextZigzag]_vars

(***************************************************************************)
(* Goroutines in getEncEngine / getDecEngine, one statement at a time.     *)
(* The read of the cache under the read lock is one step: no writer runs   *)
(* while a reader holds the lock.  Lock waits until the lock is free.  A   *)
(* build that panics leaves the goroutine dead with the lock held.  Each   *)
(* goroutine makes one call; a call that starts after another has ended    *)
(* is the later call of the same caller as well.                           *)
(***************************************************************************)
NGoroutines == 2
MaxEngines == 40

CompileTypes == {"**uint8", "main.Node", "map[uint8]func()"}

IdleG == [pc |-> "idle", dir |-> "enc", rt |-> "", eng |-> 0, missed |-> FALSE,
          work |-> << >>, panicking |-> FALSE, named |-> ""]

InitCompile ==
    /\ InitWorld
    /\ call = NoCall
    /\ enc = NoEncoder
    /\ dec = NoDecoder
    /\ gor = [g \in 1..NGoroutines |-> IdleG]

\* go getEncEngine(rt) / go getDecEngine(rt)
GetEngineCall(g) ==
    /\ gor[g].pc = "idle"
    /\ \E dir \in {"enc", "dec"} : \E rt \in CompileTypes :
          gor' = [gor EXCEPT ![g] = [IdleG EXCEPT !.pc = "read", !.dir = dir, !.rt = rt]]
    /\ UNCHANGED << world, call, enc, dec >>

\* RLock; engine := cache[rt]; RUnlock; if engine != nil { return engine }
GetEngineRead(g) ==
    /\ gor[g].pc = "read"
    /\ Lock(gor[g].dir, W) = 0
    /\ gor' = [gor EXCEPT ![g] =
                  IF Cache(gor[g].dir, W)[gor[g].rt] # 0
                  THEN [@ EXCEPT !.pc = "done", !.eng = Cache(gor[g].dir, W)[gor[g].rt]]
                  ELSE [@ EXCEPT !.pc = "lock", !.missed = TRUE]]
    /\ UNCHANGED << world, call, enc, dec >>

\* Lock()
GetEngineLock(g) ==
    /\ gor[g].pc = "lock"
    /\ Lock(gor[g].dir, W) = 0
    /\ SetW(SetLock(gor[g].dir, W, 1))
    /\ gor' = [gor EXCEPT ![g] =
                  [@ EXCEPT !.pc = "build",
                            !.work = << [rt |-> gor[g].rt, eng |-> 0, comp |-> 0,
                                         loop |-> FALSE] >>]]
    /\ UNCHANGED << call, enc, dec >>

\* one call of buildEncEngine / buildDecEngine, the first or a deferred one.
GetEngineBuild(g) ==
    /\ gor[g].pc = "build"
    /\ gor[g].work # << >>
    /\ Len(engs) < MaxEngines
    /\ \E cs \in {buildStep(gor[g].dir,
                             [w |-> W, work |-> gor[g].work,
                              panicking |-> gor[g].panicking, named |-> gor[g].named,
                              ret |-> gor[g].eng])} :
          /\ SetW(cs.w)
          /\ gor' = [gor EXCEPT ![g] = [@ EXCEPT !.work = cs.work, !.eng = cs.ret,
                                                 !.panicking = cs.panicking,
                                                 !.named = cs.named]]
    /\ UNCHANGED << call, enc, dec >>

\* the build has panicked: Unlock is not reached.
GetEnginePanic(g) ==
    /\ gor[g].pc = "build"
    /\ gor[g].work = << >>
    /\ gor[g].panicking
    /\ gor' = [gor EXCEPT ![g] = [@ EXCEPT !.pc = "dead", !.eng = 0]]
    /\ UNCHANGED << world, call, enc, dec >>

\* Unlock(); return engine
GetEngineUnlock(g) ==
    /\ gor[g].pc = "build"
    /\ gor[g].work = << >>
    /\ ~gor[g].panicking
    /\ SetW(SetLock(gor[g].dir, W, 0))
    /\ gor' = [gor EXCEPT ![g] = [@ EXCEPT !.pc = "done"]]
    /\ UNCHANGED << call, enc, dec >>

NextCompile ==
    \E g \in 1..NGoroutines :
        \/ GetEngineCall(g)
        \/ GetEngineRead(g)
        \/ GetEngineLock(g)
        \/ GetEngineBuild(g)
        \/ GetEnginePanic(g)
        \/ GetEngineUnlock(g)

SpecCompile == InitCompile /\ [][NextCompile]_vars

\* the statements of a call that has started: the scheduler lets a goroutine
\* that can run a statement run it in the end.
GetEngineStep(g) ==
    \/ GetEngineRead(g)
    \/ GetEngineLock(g)
    \/ GetEngineBuild(g)
    \/ GetEnginePanic(g)
    \/ GetEngineUnlock(g)

SpecCompileFair ==
    InitCompile /\ [][NextCompile]_vars /\ \A g \in 1..NGoroutines : WF_vars(GetEngineStep(g))

(***************************************************************************)
(* Goroutines that each encode one interface value, one statement of       *)
(* getNameOfType / RegisterName at a time.  The registry maps have no      *)
(* lock; the engine lookup that follows has one and is one step.  A write  *)
(* to a map while another goroutine is between its accesses to the maps    *)
(* is a data race: the runtime either carries the write out or stops the   *)
(* process (fatal error: concurrent map writes), which ends every          *)
(* goroutine.                                                              *)
(***************************************************************************)
RaceTypes == {"main.Color", "uint8"}

RaceG == [pc |-> "idle", rt |-> "", name |-> << >>, eng |-> 0]

InitRace ==
    /\ InitWorld
    /\ call = NoCall
    /\ enc = NoEncoder
    /\ dec = NoDecoder
    /\ gor = [g \in 1..NGoroutines |-> RaceG]

\* the process has not been stopped.
Running == \A g \in 1..NGoroutines : gor[g].pc # "fatal"

\* another goroutine is inside getNameOfType / RegisterName.
Racing(g) ==
    \E h \in 1..NGoroutines \ {g} :
        gor[h].pc \in {"lookup", "checkType", "checkName", "storeName", "storeType"}

\* the outcomes of a map write by g: gs when it is carried out, and, when it
\* races, the process stopped as well.
RaceWrite(g, gs) ==
    {gs} \cup (IF Racing(g)
               THEN {[h \in 1..NGoroutines |-> [gor[h] EXCEPT !.pc = "fatal"]]}
               ELSE {})

\* go Marshal(&v), v an interface value holding a value of type rt: the
\* interface engine has written the presence boolean.
RaceStart(g) ==
    /\ Running
    /\ gor[g].pc = "idle"
    /\ \E rt \in RaceTypes :
          gor' = [gor EXCEPT ![g] = [RaceG EXCEPT !.pc = "lookup", !.rt = rt]]
    /\ UNCHANGED << world, call, enc, dec >>

\* getNameOfType: name, has := type2name[rt]
RaceLookup(g) ==
    /\ Running
    /\ gor[g].pc = "lookup"
    /\ gor' = [gor EXCEPT ![g] =
                  IF gor[g].rt \in DOMAIN type2name
                  THEN [@ EXCEPT !.pc = "engine", !.name = type2name[gor[g].rt]]
                  ELSE [@ EXCEPT !.pc = "checkType", !.name = GetNameByType(gor[g].rt)]]
    /\ UNCHANGED << world, call, enc, dec >>

\* RegisterName: the name is not empty, the type not nil; _, has := type2name[rt]
RaceCheckType(g) ==
    /\ Running
    /\ gor[g].pc = "checkType"
    /\ gor' = [gor EXCEPT ![g] =
                  IF gor[g].name = << >> \/ Kind(gor[g].rt) = "invalid"
                     \/ gor[g].rt \in DOMAIN type2name
                  THEN [@ EXCEPT !.pc = "panicked"]
                  ELSE [@ EXCEPT !.pc = "checkName"]]
    /\ UNCHANGED << world, call, enc, dec >>

\* RegisterName: _, has := name2type[name]
RaceCheckName(g) ==
    /\ Running
    /\ gor[g].pc = "checkName"
    /\ gor' = [gor EXCEPT ![g] =
                  IF gor[g].name \in DOMAIN name2type
                  THEN [@ EXCEPT !.pc = "panicked"]
                  ELSE [@ EXCEPT !.pc = "storeName"]]
    /\ UNCHANGED << world, call, enc, dec >>

\* RegisterName: name2type[name] = rt
RaceStoreName(g) ==
    /\ Running
    /\ gor[g].pc = "storeName"
    /\ \E gs \in RaceWrite(g, [gor EXCEPT ![g] = [@ EXCEPT !.pc = "storeType"]]) :
          /\ gor' = gs
          /\ name2type' = IF gs[g].pc = "fatal" THEN name2type
                          ELSE (gor[g].name :> gor[g].rt) @@ name2type
    /\ UNCHANGED << rt2encEng, rt2decEng, engs, encLock, decLock, type2name,
                    call, enc, dec >>

\* RegisterName: type2name[rt] = name
RaceStoreType(g) ==
    /\ Running
    /\ gor[g].pc = "storeType"
    /\ \E gs \in RaceWrite(g, [gor EXCEPT ![g] = [@ EXCEPT !.pc = "engine"]]) :
          /\ gor' = gs
          /\ type2name' = IF gs[g].pc = "fatal" THEN type2name
                          ELSE (gor[g].rt :> gor[g].name) @@ type2name
    /\ UNCHANGED << rt2encEng, rt2decEng, engs, encLock, decLock, name2type,
                    call, enc, dec >>

\* e.encString(name); getEncEngine(et)(e, p); the call returns.
RaceEngine(g) ==
    /\ Running
    /\ gor[g].pc = "engine"
    /\ \E r \in {getEncEngine(W, gor[g].rt)} :
          /\ SetW(r.w)
          /\ gor' = [gor EXCEPT ![g] = [@ EXCEPT !.pc = "done", !.eng = r.eng]]
    /\ UNCHANGED << call, enc, dec >>

NextRace ==
    \E g \in 1..NGoroutines :
        \/ RaceStart(g)
        \/ RaceLookup(g)
        \/ RaceCheckType(g)
        \/ RaceCheckName(g)
        \/ RaceStoreName(g)
        \/ RaceStoreType(g)
        \/ RaceEngine(g)

SpecRace == InitRace /\ [][NextRace]_vars

(***************************************************************************)
(* The public operations that touch the engine caches, one caller.  A call *)
(* that would wait for a lock nobody will release never returns and is     *)
(* left out.                                                               *)
(***************************************************************************)
MaxOps == 4

PublicTypes == {"time.Time", "**uint8", "main.Bad"}

\* the interface values handed to Marshal.
PublicVals == {<< <<"main.Color", 7>> >>, << <<"*uint8", <<5>> >> >>}

\* NewEncoderWithType(t); the Encoder is dropped.
PublicNewEncoder ==
    /\ call.n < MaxOps
    /\ \E t \in PublicTypes : \E r \in {NewEncoderWithType(W, << t >>)} :
            /\ r.st # "hang"
            /\ SetW(r.w)
            /\ call' = [NoCall EXCEPT !.pc = "made", !.ts = << t >>, !.st = r.st,
                                      !.n = call.n + 1]
    /\ UNCHANGED << enc, dec, gor >>

\* NewDecoderWithType(t); the Decoder is dropped.
PublicNewDecoder ==
    /\ call.n < MaxOps
    /\ \E t \in PublicTypes : \E r \in {NewDecoderWithType(W, << t >>)} :
            /\ r.st # "hang"
            /\ SetW(r.w)
            /\ call' = [NoCall EXCEPT !.pc = "made", !.ts = << t >>, !.st = r.st,
                                      !.n = call.n + 1]
    /\ UNCHANGED << enc, dec, gor >>

\* Marshal(&v), v an interface value: the engine of the type it holds is
\* looked up while the call runs.
PublicMarshal ==
    /\ call.n < MaxOps
    /\ \E vs \in PublicVals : \E r \in {Marshal(W, <<"interface {}">>, vs, "asc")} :
            /\ r.st # "hang"
            /\ SetW(r.w)
            /\ call' = [NoCall EXCEPT !.pc = "marshalled", !.ts = <<"interface {}">>,
                                      !.st = r.st, !.n = call.n + 1]
    /\ UNCHANGED << enc, dec, gor >>

\* UnusedUnixNanoEncodeTimeType()
PublicUnused ==
    /\ call.n < MaxOps
    /\ SetW(UnusedUnixNanoEncodeTimeType(W))
    /\ call' = [NoCall EXCEPT !.pc = "unused", !.n = call.n + 1]
    /\ UNCHANGED << enc, dec, gor >>

NextPublic == PublicNewEncoder \/ PublicNewDecoder \/ PublicMarshal \/ PublicUnused

SpecPublic == Init /\ [][NextPublic]_vars

(***************************************************************************)
(* The operations on the type registry, one caller: Register,              *)
(* RegisterName, and the registration made when an interface value of a    *)
(* type not yet registered is encoded.                                     *)
(***************************************************************************)
RegistryTypes == {"uint8", "main.Color", "*uint8", "func()", "<nil>"}

\* the names handed to RegisterName: none, a name of the caller's own, and the
\* canonical names of two types.
RegistryNames == {<< >>, Str(<<"c">>), GetNameByType("main.Color"), GetNameByType("*uint8")}

\* Register(i)
RegistryRegister ==
    /\ \E t \in RegistryTypes : \E r \in {Register(W, t)} :
            /\ SetW(r.w)
            /\ call' = [NoCall EXCEPT !.pc = "registered", !.ts = << t >>, !.st = r.st,
                                      !.name = r.name]
    /\ UNCHANGED << enc, dec, gor >>

\* RegisterName(name, rt)
RegistryRegisterName ==
    /\ \E t \in RegistryTypes : \E name \in RegistryNames :
         \E r \in {RegisterName(W, name, t)} :
            /\ SetW(r.w)
            /\ call' = [NoCall EXCEPT !.pc = "registered", !.ts = << t >>, !.st = r.st,
                                      !.name = name]
    /\ UNCHANGED << enc, dec, gor >>

\* Marshal(&v), v an interface value holding a value of type t.
RegistryMarshal ==
    /\ \E t \in RegistryTypes \ {"<nil>"} :
         \E r \in {Marshal(W, <<"interface {}">>, << << t, Zero(t) >> >>, "asc")} :
            /\ r.st # "hang"
            /\ SetW(r.w)
            /\ call' = [NoCall EXCEPT !.pc = "marshalled", !.ts = << t >>, !.st = r.st,
                                      !.wire = r.ret]
    /\ UNCHANGED << enc, dec, gor >>

NextRegistry == RegistryRegister \/ RegistryRegisterName \/ RegistryMarshal

SpecRegistry == Init /\ [][NextRegistry]_vars

(***************************************************************************)
(* One Marshal of a struct value and one Unmarshal of the bytes into a     *)
(* struct of the same or of another nesting.  The three struct types have  *)
(* the members A bool, C bool, D uint8, Z uint8 in this order, main.S and  *)
(* main.Deep a tagged member besides.                                      *)
(***************************************************************************)
FlattenTypes == {"main.S", "main.Flat", "main.Deep"}

\* the struct value of type t with the given members: the memory slots in
\* the order of the layout.
FlattenValue(t, a, c, d, z, skip) ==
    CASE t = "main.S"    -> << a, IF skip THEN 3 ELSE 0, c, d, z >>
      [] t = "main.Flat" -> << a, c, d, z >>
      [] t = "main.Deep" -> << a, c, d, skip, z >>

FlattenVals(t) ==
    {FlattenValue(t, a, c, d, z, skip) :
        a \in BOOLEAN, c \in BOOLEAN, d \in {0, 200}, z \in {0, 7}, skip \in BOOLEAN}

\* b := Marshal(&v)
FlattenMarshal ==
    /\ call.pc = "idle"
    /\ \E t \in FlattenTypes : \E v \in FlattenVals(t) :
         \E r \in {Marshal(W, << t >>, << v >>, "asc")} :
            /\ SetW(r.w)
            /\ call' = [NoCall EXCEPT !.pc = "marshalled", !.ts = << t >>,
                                      !.src = << v >>, !.wire = r.ret, !.st = r.st]
    /\ UNCHANGED << enc, dec, gor >>

\* n := Unmarshal(b, &w)
FlattenUnmarshal ==
    /\ call.pc = "marshalled"
    /\ call.st = "ok"
    /\ \E t \in FlattenTypes :
         \E old \in {Zero(t), FlattenValue(t, TRUE, TRUE, 9, 9, TRUE)} :
         \E r \in {Unmarshal(W, call.wire, << t >>, << old >>)} :
            /\ SetW(r.w)
            /\ call' = [call EXCEPT !.pc = "done", !.into = << t >>, !.dst0 = << old >>,
                                    !.dst = r.vs, !.ret = r.ret, !.st = r.st]
    /\ UNCHANGED << enc, dec, gor >>

NextFlatten == FlattenMarshal \/ FlattenUnmarshal

SpecFlatten == Init /\ [][NextFlatten]_vars

(***************************************************************************)
(* Engine lookups of types with and without escape hatches, in both        *)
(* directions, and the removal of the time.Time entries, one caller.       *)
(***************************************************************************)
DispatchTypes == {"time.Time", "main.All", "main.Color"}

\* the most calls of UnusedUnixNanoEncodeTimeType in the model.
MaxUnused == 1

\* getEncEngine(rt) / getDecEngine(rt)
DispatchGetEngine ==
    /\ \E dir \in {"enc", "dec"} : \E t \in DispatchTypes :
         \E r \in {IF dir = "dec" THEN getDecEngine(W, t) ELSE getEncEngine(W, t)} :
            /\ SetW(r.w)
            /\ call' = [NoCall EXCEPT !.pc = "compiled", !.ts = << t >>, !.st = r.st,
                                      !.dir = dir, !.named = r.named, !.ret = r.eng,
                                      !.n = call.n]
    /\ UNCHANGED << enc, dec, gor >>

\* UnusedUnixNanoEncodeTimeType()
DispatchUnused ==
    /\ call.n < MaxUnused
    /\ SetW(UnusedUnixNanoEncodeTimeType(W))
    /\ call' = [NoCall EXCEPT !.pc = "unused", !.n = call.n + 1]
    /\ UNCHANGED << enc, dec, gor >>

NextDispatch == DispatchGetEngine \/ DispatchUnused

SpecDispatch == Init /\ [][NextDispatch]_vars

(***************************************************************************)
(* Compiles of supported and unsupported shapes, one caller, who recovers  *)
(* from a panic and goes on.  A call that would wait for a lock nobody     *)
(* will release never returns and is left out.                             *)
(***************************************************************************)
ShapeTypes == {"func()", "chan uint8", "unsafe.Pointer", "<nil>", "main.Bad",
               "map[uint8]func()", "[]chan uint8", "**uint8", "main.Node"}

\* getEncEngine(rt) / getDecEngine(rt)
ShapeGetEngine ==
    /\ \E dir \in {"enc", "dec"} : \E t \in ShapeTypes :
         \E r \in {IF dir = "dec" THEN getDecEngine(W, t) ELSE getEncEngine(W, t)} :
            /\ r.st # "hang"
            /\ SetW(r.w)
            /\ call' = [NoCall EXCEPT !.pc = "compiled", !.ts = << t >>, !.st = r.st,
                                      !.dir = dir, !.named = r.named, !.ret = r.eng]
    /\ UNCHANGED << enc, dec, gor >>

NextShape == ShapeGetEngine

SpecShape == Init /\ [][NextShape]_vars

(***************************************************************************)
(* Buffers from another process.  The peer starts from the same package    *)
(* state, registers a type under a name and marshals an interface value    *)
(* holding a value of it; this process registers what it registers and     *)
(* unmarshals the peer's bytes.                                            *)
(***************************************************************************)
PeerTypes == {"main.Color", "*uint8"}
PeerNames == {Str(<<"c">>), GetNameByType("main.Color"), GetNameByType("*uint8")}
PeerVals(t) == IF t = "main.Color" THEN {7} ELSE {<< >>, <<5>>}
PeerPriors == {<< >>, <<"main.Color", 3>>, <<"*uint8", <<9>> >>}

PeerWorld == World(InitCache("enc"), InitCache("dec"), PrimEngs, 0, 0, << >>, << >>)

\* the bytes the peer's Marshal(&i) returns, i holding v of type t, after its
\* RegisterName(name, t).
PeerMarshal(name, t, v) ==
    Marshal(RegisterName(PeerWorld, name, t).w, <<"interface {}">>, << << t, v >> >>,
            "asc").ret

\* RegisterName(name, rt) in this process.
PeerRegisterName ==
    /\ \E t \in PeerTypes : \E name \in PeerNames : \E r \in {RegisterName(W, name, t)} :
            /\ SetW(r.w)
            /\ call' = [NoCall EXCEPT !.pc = "registered", !.ts = << t >>, !.st = r.st,
                                      !.name = name]
    /\ UNCHANGED << enc, dec, gor >>

\* n := Unmarshal(b, &w), b from the peer.
PeerUnmarshal ==
    /\ \E t \in PeerTypes : \E name \in PeerNames : \E v \in PeerVals(t) :
         \E prior \in PeerPriors :
         \E b \in {PeerMarshal(name, t, v)} :
         \E r \in {Unmarshal(W, b, <<"interface {}">>, << prior >>)} :
            /\ SetW(r.w)
            /\ call' = [NoCall EXCEPT !.pc = "received", !.ts = <<"interface {}">>,
                                      !.src = << << t, v >> >>, !.name = name,
                                      !.wire = b, !.buf = b, !.dst0 = << prior >>,
                                      !.dst = r.vs, !.ret = r.ret, !.st = r.st]
    /\ UNCHANGED << enc, dec, gor >>

NextPeer == PeerRegisterName \/ PeerUnmarshal

SpecPeer == Init /\ [][NextPeer]_vars

(***************************************************************************)
(* Properties of one Marshal / Unmarshal pair.                             *)
(***************************************************************************)
Done == call.pc = "done"
ZeroDst == call.dst0 = ZeroList(call.ts)

\* for each memory slot of a struct type, whether the member there carries
\* the tag gotiny:"-".
RECURSIVE SlotSkips(_)
SlotSkips(t) ==
    LET fs == StructFields(t)
        RECURSIVE cat(_)
        cat(i) == IF i > Len(fs) THEN << >>
                  ELSE (IF Kind(fs[i].type) = "struct" /\ fs[i].type # "time.Time"
                        THEN [j \in 1..SizeOf(fs[i].type) |->
                                 fs[i].skip \/ SlotSkips(fs[i].type)[j]]
                        ELSE << fs[i].skip >>) \o cat(i + 1)
    IN  cat(1)

\* v with the tagged members of a struct taken from old.
Kept(t, v, old) ==
    IF Kind(t) = "struct" /\ t # "time.Time"
    THEN [i \in 1..Len(v) |-> IF SlotSkips(t)[i] THEN old[i] ELSE v[i]]
    ELSE v

KeptList(ts, vs, olds) == [i \in 1..Len(ts) |-> Kept(ts[i], vs[i], olds[i])]

C2_DecodedCompletely ==
    Done =>
        /\ call.st = "ok"
        /\ NormList(call.ts, call.dst)
             = NormList(call.ts, KeptList(call.ts, call.src, call.dst0))

NodeLists == {<<"main.Node">>, <<"*main.Node">>}

\* engine g is the only engine built for type t in direction dir.
OnlyEngine(dir, t, g) ==
    /\ g # 0
    /\ {i \in DOMAIN engs : engs[i].rt = t /\ engs[i].dir = dir} = {g}

\* the engines of Node and *Node refer to each other through the cache.
NodeBound(dir, cache) ==
    /\ OnlyEngine(dir, "main.Node", cache["main.Node"])
    /\ OnlyEngine(dir, "*main.Node", cache["*main.Node"])
    /\ engs[cache["main.Node"]].comps = << PrimOf(dir, "uint8"), cache["*main.Node"] >>
    /\ engs[cache["*main.Node"]].comps = << cache["main.Node"] >>

\* C7: compiling type Node struct { Val uint8; Next *Node } ends (no call is
\* cut short), builds one engine for Node and one for *Node that refer to each
\* other through the cache, and these engines round-trip every chain of up to
\* MaxChain nodes.
C7_SelfReference ==
    (call.pc # "idle" /\ call.ts \in NodeLists) =>
        /\ call.st = "ok"
        /\ NodeBound("enc", rt2encEng)
        /\ Done => NodeBound("dec", rt2decEng)
        /\ (Done /\ ZeroDst) => call.dst = call.src

\* a chain of MaxChain nodes has made the round trip.
C7_Witness ==
    /\ Done /\ ZeroDst
    /\ call.ts = <<"*main.Node">>
    /\ call.src = << Chain(MaxChain) >>
    /\ call.dst = call.src
    /\ engs[rt2decEng["*main.Node"]].comps = << rt2decEng["main.Node"] >>

BoolLists == {<<"[N]bool">>, <<"[N]*uint8">>}

\* the k-th boolean (from 0) of a call on an array of booleans or of
\* pointers: the element, or whether the pointer is set.
BoolNo(k) ==
    IF call.ts = <<"[N]bool">> THEN call.src[1][k + 1] ELSE call.src[1][k + 1] # << >>

\* the bytes in the stream when boolean k is met: one control byte for every
\* 8 booleans before it, one byte for every pointer set before it.
StreamAt(k) ==
    ((k + 7) \div 8)
    + (IF call.ts = <<"[N]bool">> THEN 0
       ELSE Cardinality({j \in 1..k : call.src[1][j] # << >>}))

BitOf(byte, i) == (byte \div Pow2(i)) % 2 = 1

\* C8: boolean k of a call (presence booleans included) is bit k mod 8 of the
\* control byte that sits where boolean 8*(k div 8) was met, so n booleans use
\* ceil(n/8) control bytes; the decoder reads every boolean back from there.
C8_BoolPacking ==
    (call.pc # "idle" /\ call.ts \in BoolLists) =>
        /\ call.st = "ok"
        /\ Len(call.wire) = StreamAt(NBools)
        /\ \A k \in 0..(NBools - 1) :
              BitOf(call.wire[StreamAt(8 * (k \div 8)) + 1], k % 8) = BoolNo(k)
        /\ Done => (call.dst = call.src /\ call.ret = Len(call.wire))

\* true, false, true, ... and true again as the ninth: two control bytes, the
\* ninth boolean in bit 0 of the second.
C8_Witness ==
    /\ Done
    /\ call.ts = <<"[N]bool">>
    /\ \A k \in 0..(NBools - 1) : call.src[1][k + 1] = (k % 2 = 0)
    /\ Len(call.wire) = 2
    /\ call.wire[1] = 85
    /\ BitOf(call.wire[2], 0)
    /\ call.dst = call.src

\* C9: 127 takes 1 byte, 128 takes 2, every value from 2^56 on takes 9 and no
\* value takes more; decUint64 moves the index on by exactly the bytes the
\* value took, whatever follows them, and returns the value.
C9_VarintBoundaries ==
    (call.pc # "idle" /\ call.ts = <<"uint64">>) =>
        LET v == call.src[1]
            n == Len(call.wire)
        IN  /\ call.st = "ok"
            /\ v = BV(127, 64) => n = 1
            /\ v = BV(128, 64) => n = 2
            /\ HighBit(v) >= 56 => n = 9
            /\ n \in 1..9
            /\ Done => (call.ret = n /\ call.dst[1] = v)

\* 2^56 went out as 9 bytes and came back from a buffer that continues.
C9_Witness ==
    /\ Done
    /\ call.ts = <<"uint64">>
    /\ call.src[1] = BVBits({56}, 64)
    /\ Len(call.wire) = 9
    /\ call.extra # << >>
    /\ call.ret = 9
    /\ call.dst = call.src

(***************************************************************************)
(* Properties of the calls on a retained session.                          *)
(***************************************************************************)
\* C3 as stated: every top-level encode or decode call on a session finds the
\* cursor at zero (Decoder: index 0 and boolean bit 0; Encoder: boolean
\* position 0 and boolean bit 0), whether the calls before it completed or
\* were aborted, and leaves the session's engine list as it found it.
C3_CursorAtZero ==
    /\ call.pc = "encoded" =>
          /\ call.start.boolPos = 0 /\ call.start.boolBit = 0
          /\ enc.e.engines = call.engines0
    /\ call.pc = "decoded" =>
          /\ call.start.index = 0 /\ call.start.boolBit = 0
          /\ dec.d.engines = call.engines0

\* C4 as stated: a decode into destinations of the types of the encoded items
\* writes the i-th item into the i-th destination and returns the number of
\* bytes the encode produced, also when more bytes follow them in the buffer.
C4_BytesConsumed ==
    (/\ call.pc = "decoded"
     /\ call.wire # << >>
     /\ dec.ts = call.ts
     /\ call.buf \in {call.wire \o x : x \in Extras}) =>
        /\ call.st = "ok"
        /\ call.ret = Len(call.wire)
        /\ NormList(call.ts, call.dst) = NormList(call.ts, call.src)

(***************************************************************************)
(* Properties of the engine caches.                                        *)
(***************************************************************************)
BuiltTypes == Types \ PrimTypes

\* the goroutines whose call has returned an engine.
Returned == {g \in DOMAIN gor : gor[g].pc = "done"}

\* no entry of either cache, once there, is replaced or removed in this step.
EntriesKept(ts) ==
    \A t \in ts :
        /\ rt2encEng[t] # 0 => rt2encEng'[t] = rt2encEng[t]
        /\ rt2decEng[t] # 0 => rt2decEng'[t] = rt2decEng[t]

\* C5: for any interleaving of getEncEngine / getDecEngine calls of several
\* goroutines, first uses at the same time included, at most one engine is
\* ever built for a type and direction, a cache entry is never replaced, and
\* every caller is handed the engine the cache holds.
C5_CompileOnce ==
    /\ [](\A t \in BuiltTypes : \A dir \in {"enc", "dec"} :
            Cardinality({i \in DOMAIN engs : engs[i].rt = t /\ engs[i].dir = dir}) <= 1)
    /\ [](\A g \in Returned :
            gor[g].eng # 0 /\ gor[g].eng = Cache(gor[g].dir, W)[gor[g].rt])
    /\ [][EntriesKept(Types)]_vars

\* two goroutines asked for the same type at its first use, both found the
\* cache empty, and both have returned with the same engine.
C5_Witness ==
    /\ Returned = 1..NGoroutines
    /\ \A g \in 1..NGoroutines :
          /\ gor[g].missed
          /\ gor[g].rt = "main.Node" /\ gor[g].dir = "dec"
          /\ gor[g].eng = rt2decEng["main.Node"]

\* C6 as stated: once a type has an entry in the encode or decode cache, it
\* has the same entry in every later state, whatever public operation runs.
C6_NeverEvictedAny == [][EntriesKept(Types)]_vars

\* C6: once a type other than time.Time has an entry in the encode or decode
\* cache, it has the same entry in every later state; the entries of
\* time.Time are removed by UnusedUnixNanoEncodeTimeType and made anew, by
\* way of the marshaler interfaces, at the next use.
C6_NeverEvicted == [][EntriesKept(Types \ {"time.Time"})]_vars

\* the entry of time.Time was removed and made anew, an engine built before
\* is still in place.
C6_Witness ==
    /\ rt2encEng["time.Time"] \notin {0, PrimOf("enc", "time.Time")}
    /\ rt2encEng["**uint8"] # 0
    /\ rt2encEng["**uint8"] < rt2encEng["time.Time"]

(***************************************************************************)
(* Properties of the type registry.                                        *)
(***************************************************************************)
\* C10: in every reachable state, after registrations that succeeded and
\* registrations that panicked, name2type and type2name are inverse maps:
\* every registered type is under exactly one name and every registered name
\* is on exactly one type.
C10_RegistryBijection ==
    /\ \A t \in DOMAIN type2name :
          type2name[t] \in DOMAIN name2type /\ name2type[type2name[t]] = t
    /\ \A n \in DOMAIN name2type :
          name2type[n] \in DOMAIN type2name /\ type2name[name2type[n]] = n

\* a registration has just panicked on a registry that holds one type under a
\* name of the caller's choice and another under its canonical name.
C10_Witness ==
    /\ call.st = "panic"
    /\ "main.Color" \in DOMAIN type2name
    /\ type2name["main.Color"] = Str(<<"c">>)
    /\ "*uint8" \in DOMAIN type2name
    /\ type2name["*uint8"] = GetNameByType("*uint8")
    /\ Cardinality(DOMAIN name2type) >= 3

\* C11: a registration (Register or RegisterName) panics exactly when the name
\* is empty, the type is nil or invalid, the type has an entry or the name
\* has an entry, and then leaves both registry maps as they were; otherwise
\* it adds the one pair (name, type) to both maps and changes no other pair.
C11_RegisterFatalAppendOnly ==
    [][call'.pc = "registered" =>
         LET name == call'.name
             t == call'.ts[1]
             conflict == \/ name = << >>
                         \/ Kind(t) = "invalid"
                         \/ t \in DOMAIN type2name
                         \/ name \in DOMAIN name2type
         IN  /\ conflict =>
                   /\ call'.st = "panic"
                   /\ type2name' = type2name
                   /\ name2type' = name2type
             /\ ~conflict =>
                   /\ call'.st = "ok"
                   /\ DOMAIN type2name' = DOMAIN type2name \cup {t}
                   /\ DOMAIN name2type' = DOMAIN name2type \cup {name}
                   /\ type2name'[t] = name
                   /\ name2type'[name] = t
                   /\ \A u \in DOMAIN type2name : type2name'[u] = type2name[u]
                   /\ \A m \in DOMAIN name2type : name2type'[m] = name2type[m]]_vars

\* a registration of a new type under a name that another type holds has
\* panicked, with two pairs in the registry.
C11_Witness ==
    /\ call.pc = "registered"
    /\ call.st = "panic"
    /\ call.ts[1] \notin DOMAIN type2name
    /\ Kind(call.ts[1]) # "invalid"
    /\ call.name \in DOMAIN name2type
    /\ Cardinality(DOMAIN type2name) = 2

(***************************************************************************)
(* Properties of interface slots.                                          *)
(***************************************************************************)
\* the bytes an Encoder with an empty buffer holds after the presence
\* boolean, the name and then the engine of the concrete type et on v.
NamedEncoding(et, v, ord) ==
    encRun([e |-> Encoder_encString(Encoder_encIsNotNil(NoEncoder.e, TRUE),
                                    type2name[et]),
            w |-> W, st |-> "ok", ord |-> ord],
           rt2encEng[et], v).e.buf

\* C12 as stated: an interface value holding a value of a registered concrete
\* type is written as presence boolean, registered name and the concrete
\* type's own encoding, and decodes back, whatever the destination interface
\* held, into an interface holding that concrete type and value; a nil
\* interface is written as a cleared presence boolean and decodes to nil.
C12_PolymorphicRoundTrip ==
    (Done /\ call.ts = <<"interface {}">>) =>
        LET v == call.src[1]
        IN  /\ call.st = "ok"
            /\ v = << >> => call.wire = <<0>> /\ call.dst[1] = << >>
            /\ v # << >> =>
                  /\ v[1] \in DOMAIN type2name
                  /\ call.wire = NamedEncoding(v[1], v[2], call.ord)
                  /\ Norm("interface {}", call.dst[1]) = Norm("interface {}", v)

\* C13: a decode of a present interface slot whose name has no entry in
\* name2type panics; the destination holds what it held, no engine of a
\* concrete type is looked up or built (the caches change in the entry of
\* the interface type at most), and the registry is as before.
C13_UnknownNameFatal ==
    [][(call'.pc = "received" /\ call'.name \notin DOMAIN name2type) =>
          /\ call'.st = "panic"
          /\ call'.dst = call'.dst0
          /\ \A t \in Types \ {"interface {}"} :
                rt2decEng'[t] = rt2decEng[t] /\ rt2encEng'[t] = rt2encEng[t]
          /\ DOMAIN engs' \ DOMAIN engs \subseteq {rt2decEng'["interface {}"]}
          /\ name2type' = name2type /\ type2name' = type2name]_vars

\* the peer's bytes carried a name this process has not registered, while
\* the type itself is registered here under another name, and the
\* destination held a value: the call panicked and the value is still there.
C13_Witness ==
    /\ call.pc = "received"
    /\ call.st = "panic"
    /\ call.name \notin DOMAIN name2type
    /\ call.src[1][1] \in DOMAIN type2name
    /\ call.dst0 = << <<"main.Color", 3>> >>
    /\ call.dst = call.dst0

(***************************************************************************)
(* Properties of the compile of unsupported shapes.                        *)
(***************************************************************************)
\* the types whose engines the engine of t is built from.
Components(t) ==
    IF t \in PrimTypes \/ implementOtherSerializer(t) # "none" THEN {}
    ELSE CASE Kind(t) \in {"ptr", "array", "slice"} -> {Elem(t)}
           [] Kind(t) = "map" -> {Key(t), Elem(t)}
           [] Kind(t) = "struct" ->
                 {getFieldType(t, 0).fields[i] : i \in DOMAIN getFieldType(t, 0).fields}
           [] OTHER -> {}

\* the types of the kinds in bad that t is or is built from.
RECURSIVE ShapesIn(_, _, _)
ShapesIn(t, bad, seen) ==
    IF t \in seen THEN {}
    ELSE (IF Kind(t) \in bad THEN {t} ELSE {})
         \cup UNION {ShapesIn(c, bad, seen \cup {t}) : c \in Components(t)}

\* the compile just made was of a type that is or holds a shape of the kinds
\* in bad, and it panicked naming one of them.
FatalFor(bad) ==
    (call.pc = "compiled" /\ ShapesIn(call.ts[1], bad, {}) # {}) =>
        /\ call.st = "panic"
        /\ call.named \in ShapesIn(call.ts[1], bad, {})

\* C14 as stated: the compile of a type that is, or has as a component, a
\* func, a chan, an unsafe.Pointer or a type of invalid kind panics naming
\* the offending type, in both directions.
C14_UnsupportedFatalAll == FatalFor({"func", "chan", "unsafe.Pointer", "invalid"})

\* C14: the compile of a type that is, or has as a component, a func, a chan
\* or an unsafe.Pointer panics naming the offending type, in both
\* directions; the absent (nil) type, the one type of invalid kind, has an
\* entry in the initial tables and gets the engine that does nothing.
C14_UnsupportedFatal ==
    /\ FatalFor({"func", "chan", "unsafe.Pointer"})
    /\ (call.pc = "compiled" /\ call.ts[1] = "<nil>") =>
          /\ call.st = "ok"
          /\ call.ret = PrimOf(call.dir, "<nil>")

\* the encode compile has panicked before: now the decode compile of a map
\* with func values has panicked naming func(), and the map's own engine is
\* in the cache.
C14_Witness ==
    /\ call.pc = "compiled"
    /\ call.dir = "dec"
    /\ call.ts = <<"map[uint8]func()">>
    /\ call.st = "panic"
    /\ call.named = "func()"
    /\ rt2decEng["map[uint8]func()"] # 0
    /\ encLock # 0

(***************************************************************************)
(* Properties of AppendTo.                                                 *)
(***************************************************************************)
\* the bytes an Encoder with the engines of the last call and an empty
\* buffer returns for the values of the last call.
FreshEncoding ==
    Encoder_encode([NoEncoder.e EXCEPT !.engines = call.engines0], W, call.src,
                   call.ord).ret

\* C15 as stated: the encode that follows AppendTo(b) returns the bytes of b
\* followed by exactly the bytes an Encoder with an empty buffer returns for
\* the same values.
C15_AppendTo ==
    (call.pc = "encoded" /\ call.appended /\ call.st = "ok") =>
        call.wire = call.buf \o FreshEncoding

(***************************************************************************)
(* Properties of the variable-length integers.                             *)
(***************************************************************************)
\* an integer of type t was read from a buffer; if the buffer was written by
\* the encoder of t, it has at most max bytes, and the decoder of t has
\* moved the index by at most max, over the whole of what the encoder wrote.
GroupsWithin(t, max) ==
    (call.pc = "read" /\ call.ts = << t >>) =>
        /\ call.ret <= max
        /\ call.wire # << >> =>
              /\ Len(call.wire) <= max
              /\ call.st = "ok"
              /\ call.ret = Len(call.wire)
              /\ call.dst = call.src

\* C16 as stated: at most 2 bytes for a 16-bit value, 5 for a 32-bit value
\* and 9 for a 64-bit value, and the decoder of each width never consumes
\* more than that.
C16_GroupBoundsStated ==
    GroupsWithin("uint16", 2) /\ GroupsWithin("uint32", 5) /\ GroupsWithin("uint64", 9)

\* C16: at most 3 bytes for a 16-bit value, 5 for a 32-bit value and 9 for a
\* 64-bit value, and the decoder of each width never consumes more than
\* that, whatever bytes the buffer holds.
C16_GroupBounds ==
    GroupsWithin("uint16", 3) /\ GroupsWithin("uint32", 5) /\ GroupsWithin("uint64", 9)

\* decUint16 has read three bytes of a buffer in which every byte has the
\* high bit set, and stopped there.
C16_Witness ==
    /\ call.pc = "read"
    /\ call.ts = <<"uint16">>
    /\ call.buf = <<200, 200, 200, 200>>
    /\ call.st = "ok"
    /\ call.ret = 3

(***************************************************************************)
(* Properties of the signed / unsigned mapping.                            *)
(***************************************************************************)
\* 2v and -2v-1 modulo 2^w, by addition and subtraction.
Twice(v) == AddBV(v, v)
MinusTwiceMinusOne(v) == SubBV(NegBV(Twice(v)), BV(1, Len(v)))

\* C17: for each of the widths 16, 32 and 64, intNToUintN maps 0 to 0, -1 to
\* 1, 1 to 2, -2 to 3, every v >= 0 to 2v and every v < 0 to -2v-1 modulo
\* 2^N, no two values to the same result, and uintNToIntN gives back v, the
\* least and the greatest value of the width included; read as an unsigned
\* word, v is itself the image of uintNToIntN(v).
C17_Zigzag ==
    /\ call.pc \in {"mapped", "back"} =>
          LET w == call.n
              v == call.src[1]
              u == call.dst[1]
          IN  /\ v = SBV(0, w) => u = BV(0, w)
              /\ v = SBV(-1, w) => u = BV(1, w)
              /\ v = SBV(1, w) => u = BV(2, w)
              /\ v = SBV(-2, w) => u = BV(3, w)
              /\ v[w] = 0 => u = Twice(v)
              /\ v[w] = 1 => u = MinusTwiceMinusOne(v)
              /\ \A v2 \in SignedVals(w) : intToUint(w, v2) = u => v2 = v
              /\ intToUint(w, uintToInt(w, v)) = v
    /\ call.pc = "back" => call.dst[2] = call.src[1]

\* the least value of 64 bits went to the greatest unsigned value and came
\* back.
C17_Witness ==
    /\ call.pc = "back"
    /\ call.n = 64
    /\ call.src = << BVBits({63}, 64) >>
    /\ call.dst = << BVBits(0..63, 64), BVBits({63}, 64) >>


\* the alternative an engine stands for: the primitive engine of the table
\* (the same position in both directions), an escape hatch, or the
\* structural engine of a kind.
AlternativeOf(es, g) ==
    IF g <= Len(PrimOps) THEN << "primitive", ((g - 1) % 9) + 1 >>
    ELSE << es[g].op, 0 >>

\* C18: the engine a lookup returns for a type is the primitive engine of the
\* built-in table when the table has the type, also when the type has
\* escape-hatch methods; otherwise the engine of the first escape hatch the
\* type has in the order Serializer, binary marshaler pair, gob pair;
\* otherwise the structural engine of its kind.  When both caches have an
\* entry for a type, the two entries stand for the same alternative.
C18_DispatchPriority ==
    [][call'.pc = "compiled" /\ call'.st = "ok" =>
          LET t   == call'.ts[1]
              dir == call'.dir
              g   == call'.ret
              own == Implements(t)
              inTable == t \in PrimTypes /\ Cache(dir, W)[t] = PrimOf(dir, t)
          IN  /\ g # 0
              /\ IF inTable THEN g = PrimOf(dir, t)
                 ELSE IF "Serializer" \in own THEN engs'[g].op = "Serializer"
                 ELSE IF "bin" \in own THEN engs'[g].op = "bin"
                 ELSE IF "gob" \in own THEN engs'[g].op = "gob"
                 ELSE IF Kind(t) \in {"ptr", "array", "slice", "map", "struct",
                                      "interface"}
                 THEN engs'[g].op = Kind(t)
                 ELSE g = KindEngine(dir, Kind(t))
              /\ engs'[g].dir = dir
              /\ \A u \in Types :
                    rt2encEng'[u] # 0 /\ rt2decEng'[u] # 0 =>
                        AlternativeOf(engs', rt2encEng'[u]) =
                            AlternativeOf(engs', rt2decEng'[u])]_vars

\* reached: time.Time got its primitive engine from the table, then, the
\* table entry gone, the engine of its binary marshaler pair; and the type
\* with all three hatches and the named type without one have engines in
\* both directions.
C18_Witness ==
    /\ call.pc = "compiled" /\ call.st = "ok"
    /\ call.ts = << "time.Time" >>
    /\ engs[call.ret].op = "bin"
    /\ rt2encEng["main.All"] # 0 /\ rt2decEng["main.All"] # 0
    /\ rt2encEng["main.Color"] # 0 /\ rt2decEng["main.Color"] # 0
    /\ rt2encEng["time.Time"] # 0 /\ rt2decEng["time.Time"] # 0


\* the memory slots of struct type t that hold transmitted members, in the
\* order of the layout, and the types of these members.
SentSlots(t) ==
    LET n == Len(SlotTypes(t))
        RECURSIVE pick(_)
        pick(i) == IF i > n THEN << >>
                   ELSE (IF SlotSkips(t)[i] THEN << >> ELSE << i >>) \o pick(i + 1)
    IN  pick(1)

SentTypes(t) == [k \in 1..Len(SentSlots(t)) |-> SlotTypes(t)[SentSlots(t)[k]]]

\* the transmitted members of the struct value v of type t.
SentOf(t, v) == [k \in 1..Len(SentSlots(t)) |-> v[SentSlots(t)[k]]]

\* the struct engine the cache of a direction holds for t keeps the list of
\* getFieldType: its offsets, and an engine for each member type.
EngineListOf(dir, t) ==
    LET E == engs[Cache(dir, W)[t]]
    IN  /\ E.op = "struct"
        /\ E.offs = [k \in 1..Len(SentSlots(t)) |-> SentSlots(t)[k] - 1]
        /\ E.comps = [k \in 1..Len(SentSlots(t)) |-> PrimOf(dir, SentTypes(t)[k])]

\* C19: the compiled list of a struct has the members that are not tagged
\* gotiny:"-", the members of nested structs in their place, in declaration
\* order, each with its offset from the outermost struct; the encode and the
\* decode engine keep this list; the bytes of a struct value are the bytes
\* of its transmitted members alone (two booleans in one byte, then two
\* bytes), so they are the same for structs of any nesting with the same
\* members, and a decode into a struct of another nesting sets the same
\* members and leaves the tagged ones as they were.
C19_Flattened ==
    /\ call.pc \in {"marshalled", "done"} =>
          LET t == call.ts[1]
              v == call.src[1]
              m == SentOf(t, v)
          IN  /\ call.st = "ok"
              /\ getFieldType(t, 0).fields = SentTypes(t)
              /\ SentTypes(t) = << "bool", "bool", "uint8", "uint8" >>
              /\ EngineListOf("enc", t)
              /\ call.wire = << (IF m[1] THEN 1 ELSE 0) + (IF m[2] THEN 2 ELSE 0),
                                m[3], m[4] >>
    /\ call.pc = "done" =>
          LET t   == call.into[1]
              new == call.dst[1]
              old == call.dst0[1]
          IN  /\ EngineListOf("dec", t)
              /\ call.ret = Len(call.wire)
              /\ SentOf(t, new) = SentOf(call.ts[1], call.src[1])
              /\ \A i \in 1..Len(new) : SlotSkips(t)[i] => new[i] = old[i]

\* reached: a struct with a member two levels down and a tagged member that
\* is set was encoded, and the bytes decoded into a struct with another
\* nesting that held other values.
C19_Witness ==
    /\ call.pc = "done"
    /\ call.ts = << "main.Deep" >>
    /\ call.src = << << TRUE, FALSE, 200, TRUE, 7 >> >>
    /\ call.into = << "main.S" >>
    /\ call.dst0 = << << TRUE, 3, TRUE, 9, 9 >> >>
    /\ call.dst = << << TRUE, 3, FALSE, 200, 7 >> >>


\* C20: after a slice was decoded, with count the length the encoder wrote:
\* when the encoded slice was nil the destination is the nil slice; when it
\* was not and the destination was not nil with a capacity of count or more,
\* the destination has the storage and the capacity it had, the length
\* count, and the elements from count on as they were; otherwise it has
\* storage made by the decode with length and capacity count.  The first
\* count elements are the encoded ones in their order, and all the bytes
\* were read.
C20_SliceDecode ==
    (Done /\ call.ts = << "[]*uint8" >>) =>
        LET src   == call.src[1]
            old   == call.dst0[1]
            new   == call.dst[1]
            count == src.len
        IN  /\ call.st = "ok"
            /\ call.ret = Len(call.wire)
            /\ IF src.nil
               THEN new.nil /\ new.data = "nil" /\ new.len = 0 /\ new.arr = << >>
               ELSE /\ ~new.nil
                    /\ new.len = count
                    /\ \A i \in 1..count : new.arr[i] = src.arr[i]
                    /\ IF ~old.nil /\ Len(old.arr) >= count
                       THEN /\ new.data = old.data
                            /\ Len(new.arr) = Len(old.arr)
                            /\ \A i \in (count + 1)..Len(old.arr) :
                                   new.arr[i] = old.arr[i]
                       ELSE /\ new.data = "made"
                            /\ Len(new.arr) = count

\* reached: two elements were decoded into a destination of length one and
\* capacity three, which kept its storage and its third element.
C20_Witness ==
    /\ Done /\ call.ts = << "[]*uint8" >> /\ call.st = "ok"
    /\ call.src[1].arr = << <<1>>, << >> >>
    /\ call.dst0[1].arr = << <<9>>, <<8>>, << >> >>
    /\ call.dst0[1].len = 1
    /\ call.dst[1] = [nil |-> FALSE, len |-> 2, arr |-> << <<1>>, << >>, << >> >>,
                      data |-> "caller"]


(***************************************************************************)
(* Properties of the registration made by an encode.                       *)
(***************************************************************************)
\* the bytes of a Marshal of one interface value begin with the byte of the
\* presence boolean and the string name.
NameWritten(wire, name) ==
    /\ Len(wire) >= 1 + Len(Encoder_encString(NoEncoder.e, name).buf)
    /\ SubSeq(wire, 2, 1 + Len(Encoder_encString(NoEncoder.e, name).buf))
          = Encoder_encString(NoEncoder.e, name).buf

\* the registry after the step is the registry before it and the pair of
\* name and t.
PairAdded(name, t) ==
    /\ name2type' = (name :> t) @@ name2type
    /\ type2name' = (t :> name) @@ type2name

\* the Marshal of the step returned bytes with the name in them, or, for a
\* type no engine can be built for, panicked.
Encoded(t, name) ==
    IF Unsupported(Kind(t)) THEN call'.st = "panic"
    ELSE call'.st = "ok" /\ NameWritten(call'.wire, name)

\* C21 as stated: an encode of a value of a type without a registry entry
\* behind an interface slot registers the type under its canonical name and
\* writes that name; with an entry, the registered name is written and the
\* registry stays as it is.
C21_AutoRegisterAlways ==
    [][call'.pc = "marshalled" =>
          LET t == call'.ts[1]
          IN  IF t \in DOMAIN type2name
              THEN /\ name2type' = name2type /\ type2name' = type2name
                   /\ Encoded(t, type2name[t])
              ELSE /\ PairAdded(GetNameByType(t), t)
                   /\ Encoded(t, GetNameByType(t))]_vars

\* C21: as above when the canonical name of a type without an entry is not
\* the registered name of another type; when it is, the encode panics and
\* the registry stays as it is.
C21_AutoRegister ==
    [][call'.pc = "marshalled" =>
          LET t == call'.ts[1]
          IN  IF t \in DOMAIN type2name
              THEN /\ name2type' = name2type /\ type2name' = type2name
                   /\ Encoded(t, type2name[t])
              ELSE IF GetNameByType(t) \notin DOMAIN name2type
              THEN /\ PairAdded(GetNameByType(t), t)
                   /\ Encoded(t, GetNameByType(t))
              ELSE /\ call'.st = "panic"
                   /\ name2type' = name2type /\ type2name' = type2name]_vars

\* reached: a type registered under an alias of the caller's was encoded and
\* the alias written, after another type was encoded without an entry and
\* registered under its canonical name.
C21_Witness ==
    /\ call.pc = "marshalled" /\ call.st = "ok"
    /\ call.ts = << "main.Color" >>
    /\ type2name["main.Color"] = Str(<<"c">>)
    /\ NameWritten(call.wire, Str(<<"c">>))
    /\ "uint8" \in DOMAIN type2name
    /\ type2name["uint8"] = GetNameByType("uint8")


(***************************************************************************)
(* Properties of the engines goroutines get while others compile.          *)
(***************************************************************************)
\* the engines an engine reaches through captured component variables,
\* itself included.
RECURSIVE ReachFrom(_, _)
ReachFrom(todo, seen) ==
    IF todo = {} THEN seen
    ELSE LET i    == CHOOSE x \in todo : TRUE
             next == {engs[i].comps[k] : k \in DOMAIN engs[i].comps}
         IN  ReachFrom((todo \cup next) \ ({0, i} \cup seen), seen \cup {i})

\* engine i has a component variable that is still nil.
Unset(i) == \E k \in DOMAIN engs[i].comps : engs[i].comps[k] = 0

\* C22: an engine a call of getEncEngine / getDecEngine has returned, and an
\* engine the cache of a direction holds while the lock of that direction is
\* free (a reader can find it), reaches no engine with a component that is
\* still unset.
C22_NoUnsetComponent ==
    /\ \A g \in Returned : \A i \in ReachFrom({gor[g].eng}, {}) : ~Unset(i)
    /\ \A dir \in {"enc", "dec"} :
          Lock(dir, W) = 0 =>
              \A t \in Types :
                  Cache(dir, W)[t] # 0 =>
                      \A i \in ReachFrom({Cache(dir, W)[t]}, {}) : ~Unset(i)

\* reached: one goroutine missed the cache and built the engine of the
\* self-referential struct, the other found it in the cache under the shared
\* lock; both have returned it, with its two components and theirs set.
C22_Witness ==
    \E g \in Returned : \E h \in Returned :
        /\ gor[g].missed /\ ~gor[h].missed
        /\ gor[g].rt = "main.Node" /\ gor[g].dir = "dec"
        /\ gor[h].rt = "main.Node" /\ gor[h].dir = "dec"
        /\ gor[h].eng = gor[g].eng
        /\ Cardinality(ReachFrom({gor[h].eng}, {})) = 3
        /\ \A i \in ReachFrom({gor[h].eng}, {}) : ~Unset(i)


\* C23: when a call of getEncEngine / getDecEngine has ended in the
\* unsupported-shape panic, the lock of its direction is free and the cache
\* of that direction has no engine for the composite type asked for; and
\* every call that has started returns or panics in the end.
C23_UsableAfterPanic ==
    /\ [](\A g \in 1..NGoroutines :
            gor[g].pc = "dead" =>
                /\ Lock(gor[g].dir, W) = 0
                /\ Cache(gor[g].dir, W)[gor[g].rt] = 0)
    /\ \A g \in 1..NGoroutines :
          (gor[g].pc \in {"read", "lock"}) ~> (gor[g].pc \in {"done", "dead"})


(***************************************************************************)
(* Properties of the slices a retained Encoder returns.                    *)
(***************************************************************************)
\* C24: the slice the first encode call of an Encoder returned shows, after
\* any later encode calls on the Encoder, the bytes it was returned with,
\* the encoding of the values of that call.
C24_ReturnedBytesKept ==
    call.n >= 1 =>
        /\ call.st = "ok"
        /\ call.wire = Marshal(W, call.ts, call.src, "asc").ret
        /\ call.store.shown = call.wire


(***************************************************************************)
(* Properties of the registration made by encodes that run together.       *)
(***************************************************************************)
\* C25: of two goroutines that encode values of the same type behind an
\* interface slot, the type not registered before, neither panics in the
\* registration nor is stopped, and when both have returned the registry
\* has one name for the type and the type for that name.
C25_ConcurrentFirstUse ==
    \A g \in 1..NGoroutines : \A h \in 1..NGoroutines \ {g} :
        (gor[g].pc # "idle" /\ gor[h].pc # "idle" /\ gor[g].rt = gor[h].rt) =>
            /\ gor[g].pc \notin {"panicked", "fatal"}
            /\ (gor[g].pc = "done" /\ gor[h].pc = "done") =>
                  /\ gor[g].rt \in DOMAIN type2name
                  /\ {n \in DOMAIN name2type : name2type[n] = gor[g].rt}
                        = {type2name[gor[g].rt]}

====
